---- MODULE Spec2Model ----
(***************************************************************************)
(* Model of stevenpozo/construex_code.                                     *)
(*                                                                         *)
(*  Part I   image classification queue                                    *)
(*           (002_Scraping_Apify/Scraping_mexico/ai_photo_vertex_V8.py)    *)
(*  Part II  incremental company migration                                 *)
(*           (002_Scraping_Apify/Scraping_brasil/                          *)
(*            extract_data_old_webscraping.py)                             *)
(*  Part III media migration worker pool (same file)                       *)
(*  Part IV  the name matcher called on its own (same file)                *)
(*  Part V   destination names of one company's images (same file)         *)
(*  Part VI  the Apify batch pipeline                                      *)
(*           (002_Scraping_Apify/Scraping_mexico/apify_batch.py and        *)
(*            upload_data_apify_batch.py)                                  *)
(*                                                                         *)
(* Every remote-store call of the source sits in a try/except; the model   *)
(* draws its outcome (success or failure) with \E.  A failed statement has *)
(* no effect on the table (BigQuery DML and load jobs are atomic).         *)
(***************************************************************************)
EXTENDS Integers, Sequences, FiniteSets, TLC

VARIABLES
    \* ---- Part I: ai_photo_vertex_V8.py
    images,            \* cleaned_table, keyed by id_photo_cleaned
    images_processed,  \* raw table column images_processed, by id_scraping
    mode,              \* which entry point runs: "main" | "batch" | "direct"
    pc,                \* position of the running entry point
    max_empresas,      \* MAX_EMPRESAS of this deployment
    empresa_num,       \* loop variable of main
    id_scraping,       \* entity selected by the Selector (0: none)
    work,              \* images_before / images: the fixed work list
    processed_count,   \* process_images_batch counter
    success_count,     \* process_images_batch counter
    last_call,         \* last process_single_image call: photo and result
    abandoned,         \* per image, the thread of a call given up at the
                       \* timeout: "none" | "running" | "returned"
    write_error,       \* the run's log holds a store-write error line
    \* ---- Part II: extract_data_old_webscraping.py, run_migration_process
    gcs_bucket,        \* folder names under the source prefix of the bucket
    tabla1,            \* TABLA_1: the title of each company, by id_scraping
    tabla2,            \* TABLA_2: number of rows per id_scraping
    gcs_companies,     \* result of get_companies_from_gcs
    table1_companies,  \* result of get_companies_from_table1
    mpc,               \* phase of run_migration_process
    matched_companies, \* result of match_companies
    new_companies,     \* result of filter_new_companies
    query_failed,      \* get_existing_companies_in_table2 took its except
    migration_success, \* first component of migrate_to_table2's result
    migrated_companies,\* second component of migrate_to_table2's result
    companies_migrated_table2, \* stats.companies_migrated_table2
    mruns,             \* runs of the migration program started so far
    prev_candidates,   \* candidates of the preceding migrate_to_table2 call
                       \* if it returned True, << >> otherwise
    folder_layout,     \* what each company folder of the source bucket holds
    dest_objects,      \* object names written to the destination bucket
    tabla3,            \* TABLA_3: number of rows per img_path
    processed_images,  \* result of process_all_images in run_migration_process
    errors_count,      \* stats.errors_count
    \* ---- Part III: extract_data_old_webscraping.py, process_all_images
    photo_id_counter,  \* self.photo_id_counter, relative to its start value
    task_pc,           \* position of each process_company_images task
    task_images,       \* images of the task's company not yet attempted
    task_tmp,          \* the value a task has read for its pending "+= 1"
    task_result,       \* processed_images of each task
    task_log,          \* outcome of each copy the task attempted, in order
    all_images,        \* all_images of process_all_images
    companies_with_images,     \* stats.companies_with_images
    companies_without_images,  \* stats.companies_without_images
    \* ---- Part IV: match_companies and match_gcs_batch called on their own
    m_table1,          \* table1_companies handed to match_companies
    m_gcs,             \* gcs_companies handed to match_companies
    m_pc,              \* "ready" before the calls, "one" | "all" after one
    m_cand,            \* gcs_company of the last loop body of match_gcs_batch
    m_thr,             \* threshold of that call
    m_res,             \* best_match and best_similarity that body ended with
    m_failed,          \* batches whose future raised in the last call
    m_order,           \* order in which as_completed yielded the futures
    m_matched,         \* matched_companies the last match_companies returned
    \* ---- Part V: get_company_images and the loop of process_company_images
    g_folder,          \* the company's source folder: Banner.jpg, Logo.jpg
                       \* and the blob names listed under Posts/
    g_id,              \* company.id_scraping
    g_pc,              \* "ready" | "copy" | "done" ("idle": not called)
    g_images,          \* the list get_company_images returned
    g_left,            \* the images the loop has still to take
    g_copied,          \* new_name of each copy attempted, in order
    \* ---- Part VI: apify_batch.py and upload_data_apify_batch.py
    bq_table,          \* BQ_TABLE: processed, is_downloaded, Created_at of
                       \* each company row, by id_scraping
    has_images,        \* whether the scraped data of a company hold an image
    apify_runs,        \* the actor runs started at Apify, by run id
    runs_file,         \* batch_apify/apify_runs.txt: its blocks, in order
    cleaned_rows,      \* CLEANED_TABLE: how often the ImageRecords of a
                       \* company were loaded
    a_limit,           \* MAX_EMPRESAS of apify_batch
    a_pc,              \* apify_batch: "idle" | "launched" | "marked"
    a_rows,            \* apify_batch: id_scraping of the rows fetched
    a_photos,          \* apify_batch: photos_run id (0: none)
    a_page,            \* apify_batch: page_run id (0: none)
    a_count,           \* runs of apify_batch started so far
    u_pc,              \* upload main: "idle" | "batch" | "update" |
                       \* "insert" | "status" | "flip"
    u_batches,         \* upload main: the batches parsed, from the current
                       \* one on
    u_todo,            \* upload main: companies_to_process
    u_printed,         \* the lines update_batch_processed_status printed
                       \* in this run of main
    u_count            \* runs of upload main started so far

clsVars == << images, images_processed, mode, pc, max_empresas, empresa_num,
              id_scraping, work, processed_count, success_count, last_call,
              abandoned, write_error >>

migVars == << gcs_bucket, tabla1, tabla2, gcs_companies, table1_companies, mpc,
              matched_companies, new_companies, query_failed,
              migration_success, migrated_companies,
              companies_migrated_table2, mruns, prev_candidates,
              folder_layout, dest_objects, tabla3, processed_images >>

\* the statistics both the migration and the media phase write
statVars == << errors_count, companies_with_images, companies_without_images >>

medVars == << photo_id_counter, task_pc, task_images, task_tmp, task_result,
              task_log, all_images >>

matVars == << m_table1, m_gcs, m_pc, m_cand, m_thr, m_res, m_failed, m_order,
              m_matched >>

namVars == << g_folder, g_id, g_pc, g_images, g_left, g_copied >>

apiVars == << bq_table, has_images, apify_runs, runs_file, cleaned_rows,
              a_limit, a_pc, a_rows, a_photos, a_page, a_count,
              u_pc, u_batches, u_todo, u_printed, u_count >>

vars == << clsVars, migVars, statVars, medVars, matVars, namVars, apiVars >>

\* what the classification program leaves alone
otherThanCls == << migVars, statVars, medVars, matVars, namVars, apiVars >>

\* what the migration program leaves alone
otherThanMig == << clsVars, medVars, matVars, namVars, apiVars >>

\* what the media phase leaves alone, the statistics apart
otherThanMed == << clsVars, migVars, matVars, namVars, apiVars >>

\* what the matcher called on its own leaves alone
otherThanMat == << clsVars, migVars, statVars, medVars, namVars, apiVars >>

\* what get_company_images and the copy loop leave alone
otherThanNam == << clsVars, migVars, statVars, medVars, matVars, apiVars >>

\* what the Apify batch pipeline leaves alone
otherThanApi == << clsVars, migVars, statVars, medVars, matVars, namVars >>

----------------------------------------------------------------------------
(* Bounds of the model *)

MaxEntity == 2
MaxPhoto == 2
MaxEmpresas == 2

MaxCompany == 2
MaxGcs == 2
MaxMigRuns == 2
MaxPosts == 1
MaxFailures == 1
\* Part IV
MaxIndex == 2

\* Part III
MaxTasks == 2
MaxImages == 2

\* Part V
MaxBlobs == 3

\* Part VI
MaxLeads == 2
MaxLaunches == 2
MaxUploads == 2

Entities == 1..MaxEntity
Photos == 1..MaxPhoto

(* SQL NULL of an INT64 column *)
NullInt == 0 - 1

ImageTypes == {"post_image", "profile_image"}

----------------------------------------------------------------------------
(* Part I: the cleaned_table rows and the queries on them *)

\* a row as insert leaves it: every classification column NULL
NewImage(e, t) ==
    [ id_scraping |-> e, image_type |-> t,
      is_construction_image |-> "null", product_information |-> "null",
      token_input |-> NullInt, token_output |-> NullInt,
      model_used |-> "null", execution_time_seconds |-> "null",
      processed_ia_at |-> "null", time_out |-> "null" ]

\* the pending condition with the time_out conjunct forgotten
PendingIgnoringTimeOut(tbl, p) ==
    /\ tbl[p].image_type = "post_image"
    /\ tbl[p].is_construction_image = "null"

\* WHERE image_type = 'post_image' AND is_construction_image IS NULL
\*   AND (time_out IS NULL OR time_out = FALSE)
Pending(tbl, p) ==
    /\ tbl[p].image_type = "post_image"
    /\ tbl[p].is_construction_image = "null"
    /\ tbl[p].time_out \in {"null", "false"}

PendingOf(tbl, e) == { p \in Photos : tbl[p].id_scraping = e /\ Pending(tbl, p) }

\* the entities the GROUP BY ... HAVING COUNT(*) > 0 keeps
PendingEntities(tbl) == { e \in Entities : PendingOf(tbl, e) # {} }

Min(S) == CHOOSE x \in S : \A y \in S : x <= y

Range(seq) == { seq[i] : i \in 1..Len(seq) }

Max(S) == CHOOSE x \in S : \A y \in S : y <= x

\* the Selector with the ORDER BY reversed
get_next_pending_id_scraping_desc(tbl, ok) ==
    IF ok /\ PendingEntities(tbl) # {} THEN Max(PendingEntities(tbl)) ELSE 0

\* the Selector if it kept a checkpoint of the entities already worked on:
\* an entity with a classified or timed-out post image is not returned
get_next_pending_id_scraping_checkpointed(tbl, ok) ==
    LET fresh == { e \in PendingEntities(tbl) :
                     \A p \in Photos :
                        ( tbl[p].id_scraping = e
                          /\ tbl[p].image_type = "post_image" )
                            => Pending(tbl, p) }
    IN  IF ok /\ fresh # {} THEN Min(fresh) ELSE 0

\* the Selector with the time_out condition forgotten: an image counts as
\* pending while its classification is null
get_next_pending_id_scraping_counting_timed_out(tbl, ok) ==
    LET open == { tbl[p].id_scraping :
                    p \in { q \in Photos :
                              /\ tbl[q].image_type = "post_image"
                              /\ tbl[q].is_construction_image = "null" } }
    IN  IF ok /\ open # {} THEN Min(open) ELSE 0

\* ORDER BY id_scraping ASC LIMIT 1; 0 stands for None.
\* ok = FALSE: the query raised, the except branch returns None.
get_next_pending_id_scraping(tbl, ok) ==
    IF ok /\ PendingEntities(tbl) # {} THEN Min(PendingEntities(tbl)) ELSE 0

RECURSIVE SortedSeq(_)
SortedSeq(S) ==
    IF S = {} THEN << >> ELSE << Min(S) >> \o SortedSeq(S \ {Min(S)})

\* the work list with the is_construction_image IS NULL conjunct forgotten
get_images_to_process_unfiltered(tbl, e) ==
    SortedSeq({ p \in Photos : /\ tbl[p].id_scraping = e
                               /\ tbl[p].image_type = "post_image"
                               /\ tbl[p].time_out \in {"null", "false"} })

RECURSIVE Reversed(_)
Reversed(w) ==
    IF w = << >> THEN << >> ELSE Reversed(Tail(w)) \o << Head(w) >>

\* the work list under ORDER BY id_photo_cleaned DESC
get_images_to_process_descending(tbl, e) == Reversed(SortedSeq(PendingOf(tbl, e)))

\* the id_scraping branch: ORDER BY id_photo_cleaned ASC
get_images_to_process(tbl, e) == SortedSeq(PendingOf(tbl, e))

\* COUNT(*) WHERE image_type = 'post_image' AND is_construction_image IS NULL
\*   AND id_scraping = @id_scraping  (no time_out condition);
\* ok = FALSE: the query raised, the except branch returns False.
verify_company_completion(tbl, e, ok) ==
    /\ ok
    /\ { p \in Photos : /\ tbl[p].id_scraping = e
                        /\ tbl[p].image_type = "post_image"
                        /\ tbl[p].is_construction_image = "null" } = {}

----------------------------------------------------------------------------
(* Part I: the Bounded Classification Worker *)

\* what the external model call does: the inputs of one process_single_image
CallKinds == {"timeout", "products", "empty", "json_error",
              "error_before", "error_after", "raise"}

\* usage_metadata of the response: absent (the counters stay 0) or present
\* (prompt_token_count 7, candidates_token_count 3)
Usages == { << 0, 0 >>, << 7, 3 >> }

Calls == { [ kind |-> k, ti |-> u[1], to |-> u[2] ] : k \in CallKinds, u \in Usages }

\* (es_construccion, datos_producto, metadata_ai) of one call.
\*   products     json holds at least one product
\*   empty        {"products": []}
\*   json_error   json.loads raised JSONDecodeError
\*   error_before Part.from_uri / generate_content raised: token counters
\*                still hold their initial 0
\*   error_after  response.text or a later statement raised, after the
\*                usage metadata was copied into metadata_ai
analyze_image_with_vertex(call) ==
    CASE call.kind = "products" ->
            [ is_construction |-> "true", product_info |-> "product",
              token_input |-> call.ti, token_output |-> call.to ]
      [] call.kind \in {"empty", "json_error", "error_after"} ->
            [ is_construction |-> "false", product_info |-> "null",
              token_input |-> call.ti, token_output |-> call.to ]
      [] OTHER ->
            [ is_construction |-> "false", product_info |-> "null",
              token_input |-> 0, token_output |-> 0 ]

\* thread.join(timeout) ran out: (None, None, None)
TimedOut(call) == call.kind = "timeout"

\* the call raised out of analyze_image_with_timeout
Raised(call) == call.kind = "raise"

\* UPDATE ... WHERE id_photo_cleaned = @id_photo_cleaned
\* execution_time_seconds and processed_ia_at carry wall-clock values; the
\* model records that they were written
update_image_classification(tbl, p, is_construction, product_info, ti, to) ==
    [ tbl EXCEPT ![p].is_construction_image = is_construction,
                 ![p].product_information = product_info,
                 ![p].token_input = ti,
                 ![p].token_output = to,
                 ![p].model_used = "model_id",
                 ![p].execution_time_seconds = "set",
                 ![p].processed_ia_at = "set" ]

\* UPDATE ... SET time_out = TRUE WHERE id_photo_cleaned = @id_photo_cleaned
mark_time_out(tbl, p) == [ tbl EXCEPT ![p].time_out = "true" ]

\* the except branch of process_single_image: the fallback row
fallback_update(tbl, p, db2) ==
    IF db2 THEN update_image_classification(tbl, p, "false", "null", 0, 0)
    ELSE tbl

\* a store write of process_single_image raised and was logged: "Error
\* marcando time_out en BD" on the timeout path, "Error procesando imagen"
\* when update_image_classification raised, "Error actualizando BD" when
\* the fallback UPDATE raised
write_failed(call, db1, db2) ==
    IF Raised(call) THEN ~ db2 ELSE ~ db1

\* process_single_image without the try around the fallback UPDATE: when
\* that UPDATE fails too, the exception leaves the function
process_single_image_unguarded(tbl, p, call, db1, db2) ==
    IF ~ TimedOut(call) /\ ( Raised(call) \/ ~ db1 ) /\ ~ db2
    THEN [ tbl |-> tbl, ret |-> "raise", wrote |-> FALSE ]
    ELSE IF TimedOut(call)
    THEN [ tbl |-> IF db1 THEN mark_time_out(tbl, p) ELSE tbl,
           ret |-> "None", wrote |-> db1 ]
    ELSE IF Raised(call) \/ ~ db1
    THEN [ tbl |-> fallback_update(tbl, p, db2), ret |-> "False",
           wrote |-> db2 ]
    ELSE LET r == analyze_image_with_vertex(call) IN
         [ tbl |-> update_image_classification(tbl, p,
                       r.is_construction, r.product_info,
                       r.token_input, r.token_output),
           ret |-> IF r.is_construction = "true" THEN "True" ELSE "False",
           wrote |-> TRUE ]

\* process_single_image on photo p; db1, db2: whether the first and the
\* fallback store write succeed.  Yields the table, the value returned
\* ("None" on timeout, else "True" / "False"; it never raises) and whether
\* a write on the row took effect.
process_single_image(tbl, p, call, db1, db2) ==
    IF Raised(call)
    THEN [ tbl |-> fallback_update(tbl, p, db2), ret |-> "False",
           wrote |-> db2 ]
    ELSE IF TimedOut(call)
    THEN [ tbl |-> IF db1 THEN mark_time_out(tbl, p) ELSE tbl,
           ret |-> "None", wrote |-> db1 ]
    ELSE LET r == analyze_image_with_vertex(call) IN
         IF db1
         THEN [ tbl |-> update_image_classification(tbl, p,
                            r.is_construction, r.product_info,
                            r.token_input, r.token_output),
                ret |-> IF r.is_construction = "true" THEN "True"
                        ELSE "False",
                wrote |-> TRUE ]
         ELSE [ tbl |-> fallback_update(tbl, p, db2), ret |-> "False",
                wrote |-> db2 ]

----------------------------------------------------------------------------
(* Part I: the entry points main() and process_images_batch() *)

\* last_call: the photo, the model call's outcome and the value returned by
\* the latest process_single_image of the running loop (photo 0: none yet)
NoCall == [ photo |-> 0, kind |-> "none", ret |-> "None", wrote |-> FALSE,
           direct |-> FALSE ]

\* no thread of an abandoned call is alive
NoThreads == [ p \in Photos |-> "none" ]

\* "result[0] = ..." of an abandoned thread if it reached the image's row
late_result_written(tbl, p) ==
    [ tbl EXCEPT ![p].is_construction_image = "false",
                 ![p].model_used = "model_id" ]

\* the worker() closure of an abandoned call ends: "result[0] = ..." or
\* "exception_occurred[0] = e" on the lists of the call that started it,
\* which nobody reads any more; analyze_image_with_vertex writes no row
late_result(tbl, p) == tbl

\* thread.join(timeout) ran out and thread.is_alive(): the daemon thread
\* of the call on photo p is left running
abandon(threads, p, call) ==
    IF call.kind = "timeout" THEN [ threads EXCEPT ![p] = "running" ]
    ELSE threads

\* a run is one process: when main or the caller of process_images_batch
\* ends, the daemon threads (thread.daemon = True) end with the process
at_exit(threads, next_pc) ==
    IF next_pc = "idle" THEN NoThreads ELSE threads

ClsInit ==
    /\ images \in [ Photos -> { NewImage(e, t) : e \in Entities, t \in ImageTypes } ]
    /\ images_processed = [ e \in Entities |-> FALSE ]
    /\ mode = "none"
    /\ pc = "idle"
    /\ max_empresas \in 1..MaxEmpresas
    /\ empresa_num = 0
    /\ id_scraping = 0
    /\ work = << >>
    /\ processed_count = 0
    /\ success_count = 0
    /\ last_call = NoCall
    /\ abandoned = NoThreads
    /\ write_error = FALSE

\* the program is started: main() up to the first loop iteration
StartMain ==
    /\ pc = "idle"
    /\ mode' = "main"
    /\ pc' = "select"
    /\ empresa_num' = 1
    /\ id_scraping' = 0
    /\ work' = << >>
    /\ last_call' = NoCall
    /\ abandoned' = NoThreads
    /\ write_error' = FALSE
    /\ UNCHANGED << images, images_processed, max_empresas, processed_count,
                    success_count >>
    /\ UNCHANGED otherThanCls

\* main, loop head: the Selector, then images_before for the entity found.
\* okSel, okImg: whether the two queries succeed; get_images_to_process
\* re-raises, which ends main.
MainSelect ==
    /\ mode = "main"
    /\ pc = "select"
    /\ \E okSel \in BOOLEAN, okImg \in BOOLEAN :
         LET e == get_next_pending_id_scraping(images, okSel) IN
         /\ id_scraping' = e
         /\ IF e = 0 \/ ~okImg
            THEN /\ pc' = "idle"
                 /\ work' = << >>
            ELSE /\ pc' = "work"
                 /\ work' = get_images_to_process(images, e)
    /\ abandoned' = at_exit(abandoned, pc')
    /\ UNCHANGED write_error
    /\ UNCHANGED << images, images_processed, mode, max_empresas, empresa_num,
                    processed_count, success_count, last_call >>
    /\ UNCHANGED otherThanCls

\* a loop over the work list that gives up at the first timeout
rest_of_images_stop_on_timeout(w, ret) ==
    IF ret = "None" THEN << >> ELSE Tail(w)

\* "for img_data in images": the images still to come after the one just
\* passed to process_single_image, whatever that call returned
rest_of_images(w, ret) == Tail(w)

\* main, one iteration of "for img_data in images"
MainWork ==
    /\ mode = "main"
    /\ pc = "work"
    /\ work # << >>
    /\ \E call \in Calls, db1 \in BOOLEAN, db2 \in BOOLEAN :
         LET r == process_single_image(images, Head(work), call, db1, db2) IN
         /\ images' = r.tbl
         /\ last_call' = [ photo |-> Head(work), kind |-> call.kind,
                           ret |-> r.ret, wrote |-> r.wrote,
                           direct |-> FALSE ]
         /\ abandoned' = abandon(abandoned, Head(work), call)
         /\ write_error' = ( write_error \/ write_failed(call, db1, db2) )
    /\ work' = rest_of_images(work, last_call'.ret)
    /\ UNCHANGED << images_processed, mode, pc, max_empresas, empresa_num,
                    id_scraping, processed_count, success_count >>
    /\ UNCHANGED otherThanCls

\* a loop over the entities with no upper bound
more_empresas_unbounded(num, max) == TRUE

\* "for empresa_num in range(1, MAX_EMPRESAS + 1)": there is a next value
more_empresas(num, max) == num < max

\* main, end of the entity: empresas_procesadas += 1, next empresa_num
MainNext ==
    /\ mode = "main"
    /\ pc = "work"
    /\ work = << >>
    /\ IF more_empresas(empresa_num, max_empresas)
       THEN /\ empresa_num' = empresa_num + 1
            /\ pc' = "select"
       ELSE /\ empresa_num' = empresa_num
            /\ pc' = "idle"
    /\ last_call' = NoCall
    /\ abandoned' = at_exit(abandoned, pc')
    /\ UNCHANGED write_error
    /\ UNCHANGED << images, images_processed, mode, max_empresas, id_scraping,
                    work, processed_count, success_count >>
    /\ UNCHANGED otherThanCls

\* process_images_batch is called on a fresh processor
StartBatch ==
    /\ pc = "idle"
    /\ mode' = "batch"
    /\ pc' = "select"
    /\ id_scraping' = 0
    /\ work' = << >>
    /\ processed_count' = 0
    /\ success_count' = 0
    /\ last_call' = NoCall
    /\ write_error' = FALSE
    /\ UNCHANGED << images, images_processed, max_empresas, empresa_num,
                    abandoned >>
    /\ UNCHANGED otherThanCls

\* process_images_batch up to the loop: Selector, double check, work list
BatchSelect ==
    /\ mode = "batch"
    /\ pc = "select"
    /\ \E okSel \in BOOLEAN, okVer \in BOOLEAN, okImg \in BOOLEAN :
         LET e == get_next_pending_id_scraping(images, okSel) IN
         /\ id_scraping' = e
         /\ IF \/ e = 0
               \/ verify_company_completion(images, e, okVer)
               \/ ~okImg
               \/ get_images_to_process(images, e) = << >>
            THEN /\ pc' = "idle"
                 /\ work' = << >>
            ELSE /\ pc' = "work"
                 /\ work' = get_images_to_process(images, e)
    /\ UNCHANGED << images, images_processed, mode, max_empresas, empresa_num,
                    processed_count, success_count, last_call >>
    /\ abandoned' = at_exit(abandoned, pc')
    /\ UNCHANGED write_error
    /\ UNCHANGED otherThanCls

\* process_images_batch, one iteration of the loop over images
BatchWork ==
    /\ mode = "batch"
    /\ pc = "work"
    /\ work # << >>
    /\ \E call \in Calls, db1 \in BOOLEAN, db2 \in BOOLEAN :
         LET r == process_single_image(images, Head(work), call, db1, db2) IN
         /\ images' = r.tbl
         /\ last_call' = [ photo |-> Head(work), kind |-> call.kind,
                           ret |-> r.ret, wrote |-> r.wrote,
                           direct |-> FALSE ]
         /\ processed_count' =
                IF r.ret = "None" THEN processed_count ELSE processed_count + 1
         /\ success_count' =
                IF r.ret = "True" THEN success_count + 1 ELSE success_count
         /\ abandoned' = abandon(abandoned, Head(work), call)
         /\ write_error' = ( write_error \/ write_failed(call, db1, db2) )
    /\ work' = rest_of_images(work, last_call'.ret)
    /\ UNCHANGED << images_processed, mode, pc, max_empresas, empresa_num,
                    id_scraping >>
    /\ UNCHANGED otherThanCls

\* UPDATE raw SET images_processed = TRUE WHERE id_scraping = @id_scraping;
\* ok = FALSE: the statement raised, which is logged and swallowed
update_company_images_processed(flags, e, ok) ==
    IF ok THEN [ flags EXCEPT ![e] = TRUE ] ELSE flags

\* process_images_batch after the loop: the final verification only logs;
\* the flag is written when processed_count > 0 or success_count > 0
BatchFinish ==
    /\ mode = "batch"
    /\ pc = "work"
    /\ work = << >>
    /\ \E okFlag \in BOOLEAN :
         images_processed' =
            IF processed_count > 0 \/ success_count > 0
            THEN update_company_images_processed(images_processed,
                                                 id_scraping, okFlag)
            ELSE images_processed
    /\ pc' = "idle"
    /\ processed_count' = 0
    /\ success_count' = 0
    /\ last_call' = NoCall
    /\ abandoned' = at_exit(abandoned, pc')
    /\ UNCHANGED write_error
    /\ UNCHANGED << images, mode, max_empresas, empresa_num, id_scraping,
                    work >>
    /\ UNCHANGED otherThanCls

\* process_single_image called by a caller of its own on any row
DirectInvoke ==
    /\ \E p \in Photos, call \in Calls, db1 \in BOOLEAN, db2 \in BOOLEAN :
         LET r == process_single_image(images, p, call, db1, db2) IN
         /\ images' = r.tbl
         /\ last_call' = [ photo |-> p, kind |-> call.kind, ret |-> r.ret,
                           wrote |-> r.wrote, direct |-> TRUE ]
         /\ abandoned' = abandon(abandoned, p, call)
         /\ write_error' = ( write_error \/ write_failed(call, db1, db2) )
    /\ UNCHANGED << images_processed, mode, pc, max_empresas, empresa_num,
                    id_scraping, work, processed_count, success_count >>
    /\ UNCHANGED otherThanCls

\* the thread of an abandoned call on photo p ends, at any time while the
\* process lives
AbandonedReturns ==
    /\ \E p \in Photos :
          /\ abandoned[p] = "running"
          /\ abandoned' = [ abandoned EXCEPT ![p] = "returned" ]
          /\ images' = late_result(images, p)
    /\ UNCHANGED << images_processed, mode, pc, max_empresas, empresa_num,
                    id_scraping, work, processed_count, success_count,
                    last_call, write_error >>
    /\ UNCHANGED otherThanCls

\* the object names get_company_images can build, which are the img_path
\* values of TABLA_3: <id>_cover_image.jpg, <id>_profile_image.jpg and
\* <id>_image<n>.jpg
AllPaths ==
    { [ id |-> i, kind |-> k, n |-> 0 ] :
          i \in 1..MaxCompany, k \in {"cover_image", "profile_image"} }
    \cup { [ id |-> i, kind |-> "image", n |-> n ] :
              i \in 1..MaxCompany, n \in 1..MaxPosts }

\* the migration program is not running
MigIdle ==
    /\ gcs_bucket = << >>
    /\ tabla1 = [ i \in 1..MaxCompany |-> << "e", "f" >> ]
    /\ tabla2 = [ i \in 1..MaxCompany |-> 0 ]
    /\ gcs_companies = << >>
    /\ table1_companies = << >>
    /\ mpc = "idle"
    /\ matched_companies = << >>
    /\ new_companies = << >>
    /\ query_failed = FALSE
    /\ migration_success = FALSE
    /\ migrated_companies = << >>
    /\ companies_migrated_table2 = 0
    /\ mruns = 0
    /\ prev_candidates = << >>
    /\ folder_layout = [ banner |-> FALSE, logo |-> FALSE, posts |-> 0 ]
    /\ dest_objects = {}
    /\ tabla3 = [ path \in AllPaths |-> 0 ]
    /\ processed_images = << >>
    /\ errors_count = 0

\* the media phase is not running
MedIdle ==
    /\ photo_id_counter = 0
    /\ task_pc = [ t \in 1..MaxTasks |-> "queued" ]
    /\ task_images = [ t \in 1..MaxTasks |-> 0 ]
    /\ task_tmp = [ t \in 1..MaxTasks |-> 0 ]
    /\ task_result = [ t \in 1..MaxTasks |-> << >> ]
    /\ task_log = [ t \in 1..MaxTasks |-> << >> ]
    /\ all_images = << >>
    /\ companies_with_images = 0
    /\ companies_without_images = 0

\* the matcher is not being called on its own
MatIdle ==
    /\ m_table1 = << >>
    /\ m_gcs = << >>
    /\ m_pc = "idle"
    /\ m_cand = << >>
    /\ m_thr = << 1, 2 >>
    /\ m_res = [ found |-> FALSE,
                 company |-> [ id_scraping |-> 0, title |-> << >> ],
                 similarity |-> << 0, 1 >> ]
    /\ m_failed = {}
    /\ m_order = << >>
    /\ m_matched = << >>

\* no company's images are being listed on their own
NamIdle ==
    /\ g_folder = [ banner |-> FALSE, logo |-> FALSE, posts |-> << >> ]
    /\ g_id = 0
    /\ g_pc = "idle"
    /\ g_images = << >>
    /\ g_left = << >>
    /\ g_copied = << >>

\* the Apify batch pipeline is not running
ApiIdle ==
    /\ bq_table = [ c \in 1..MaxLeads |->
                      [ processed |-> FALSE, is_downloaded |-> FALSE,
                        created_at |-> FALSE ] ]
    /\ has_images = [ c \in 1..MaxLeads |-> FALSE ]
    /\ apify_runs = << >>
    /\ runs_file = << >>
    /\ cleaned_rows = [ c \in 1..MaxLeads |-> 0 ]
    /\ a_limit = 1
    /\ a_pc = "idle"
    /\ a_rows = {}
    /\ a_photos = 0
    /\ a_page = 0
    /\ a_count = 0
    /\ u_pc = "idle"
    /\ u_batches = << >>
    /\ u_todo = {}
    /\ u_printed = << >>
    /\ u_count = 0

ClsNext ==
    \/ StartMain \/ MainSelect \/ MainWork \/ MainNext
    \/ StartBatch \/ BatchSelect \/ BatchWork \/ BatchFinish
    \/ AbandonedReturns

\* the pipeline: runs of main() and of process_images_batch()
\* the classification program starts; the migration program is not running
InitClassify ==
    ClsInit /\ MigIdle /\ MedIdle /\ MatIdle /\ NamIdle /\ ApiIdle

SpecClassify == InitClassify /\ [][ClsNext]_vars

\* the pipeline with its loops running on: a pass over a work list is
\* sequential code that goes on to the next image
SpecClassifyFair ==
    /\ InitClassify
    /\ [][ClsNext]_vars
    /\ WF_vars(MainWork)
    /\ WF_vars(BatchWork)

\* a run of main goes on: each of its steps is sequential code that is
\* executed once it is reached
SpecMainFair ==
    /\ InitClassify
    /\ [][ClsNext]_vars
    /\ WF_vars(MainSelect)
    /\ WF_vars(MainWork)
    /\ WF_vars(MainNext)

\* a caller of process_single_image alone: MAX_EMPRESAS, a local of main,
\* plays no part
InitWorker == InitClassify /\ max_empresas = 1

\* process_single_image as a method its callers may invoke on any row
SpecWorker == InitWorker /\ [][DirectInvoke]_vars

----------------------------------------------------------------------------
(* Part I: properties *)

\* CONSTRUCTION, NOT_CONSTRUCTION or TIMED_OUT
TerminalImage(r) ==
    \/ r.is_construction_image \in {"true", "false"}
    \/ r.time_out = "true"

\* a step of the loop over the work list: process_single_image(Head(work))
WorkerStep == pc = "work" /\ work # << >> /\ work' = Tail(work)

\* the classification columns update_image_classification writes
ClassificationFields(r) ==
    << r.is_construction_image, r.product_information, r.token_input,
       r.token_output, r.model_used, r.execution_time_seconds,
       r.processed_ia_at >>

\* C1: once an image is CONSTRUCTION, NOT_CONSTRUCTION or TIMED_OUT, no
\* later step of the pipeline (Selector queries, worker calls of main and of
\* process_images_batch) changes any of its columns.
C1_TerminalNeverChanges ==
    [][ \A p \in Photos :
            TerminalImage(images[p]) => images'[p] = images[p] ]_vars

\* a terminal image whose entity was selected again and is being worked:
\* the worker has just processed a sibling of it
C1_Witness ==
    \E p \in Photos, q \in Photos :
        /\ p # q
        /\ pc = "work"
        /\ last_call.photo = q
        /\ images[p].id_scraping = images[q].id_scraping
        /\ images[p].image_type = "post_image"
        /\ TerminalImage(images[p])
        /\ TerminalImage(images[q])

\* C2: process_single_image invoked directly on an image that is already
\* CONSTRUCTION, NOT_CONSTRUCTION or TIMED_OUT leaves the row unchanged.
C2_DirectCallKeepsTerminalRow ==
    [][ \A p \in Photos :
            ( /\ TerminalImage(images[p])
              /\ last_call'.direct
              /\ last_call'.photo = p ) => images'[p] = images[p] ]_vars

C4_ErrorFallsBackToFalseZeroTokens ==
    [][ ( WorkerStep /\ last_call'.kind \in {"error_before", "error_after", "raise"} ) =>
            LET p == Head(work) IN
            /\ images'[p].is_construction_image = "false"
            /\ images'[p].token_input = 0
            /\ images'[p].token_output = 0
            /\ ~ Pending(images', p) ]_vars

\* the step that ends the pass over the selected entity's work list
EntityPassEnds == pc = "work" /\ work = << >> /\ pc' # "work"

\* C5: when the pass over an entity ends, images_processed becomes true
\* exactly when the entity has no pending (unclassified, non-timed-out)
\* post image left; it is never true for an entity with a pending image.
C5_FlagIffNoPendingLeft ==
    [][ EntityPassEnds =>
            ( images_processed'[id_scraping]
                <=> PendingOf(images, id_scraping) = {} ) ]_vars

\* the Selector step of main and of process_images_batch
SelectStep == pc = "select" /\ pc' # "select"

\* entity e has a post image with is_construction_image NULL and time_out
\* not TRUE
HasPendingPost(tbl, e) ==
    \E p \in Photos :
        /\ tbl[p].id_scraping = e
        /\ tbl[p].image_type = "post_image"
        /\ tbl[p].is_construction_image = "null"
        /\ tbl[p].time_out # "true"

\* r is the smallest entity with a pending post image, none (0) exactly
\* when there is no such entity
SmallestPendingOrNone(tbl, r) ==
    /\ r = 0 <=> ~ \E e \in Entities : HasPendingPost(tbl, e)
    /\ r # 0 => /\ r \in Entities
                /\ HasPendingPost(tbl, r)
                /\ \A e \in Entities : HasPendingPost(tbl, e) => r <= e

C25_MainLoopTerminates ==
    /\ [] ( mode = "main" => empresa_num <= max_empresas )
    /\ [][ ( mode = "main" /\ SelectStep /\ id_scraping' = 0 )
            => pc' = "idle" ]_vars
    /\ [][ ( mode = "main" /\ EntityPassEnds )
            => \/ pc' = "select" /\ empresa_num' = empresa_num + 1
               \/ pc' = "idle" /\ empresa_num = max_empresas ]_vars
    /\ ( mode = "main" /\ pc # "idle" ) ~> ( pc = "idle" )

\* a run of main has ended after MAX_EMPRESAS = 2 entities, with a timed
\* out image and with an image that is still pending because its writes
\* failed
C25_Witness ==
    /\ mode = "main"
    /\ pc = "idle"
    /\ max_empresas = 2
    /\ empresa_num = 2
    /\ id_scraping # 0
    /\ PendingEntities(images) # {}
    /\ \E p \in Photos : images[p].time_out = "true"

\* C26: on every table the pipeline reaches, verify_company_completion(e),
\* when its query answers, is true exactly when entity e has no post image
\* that the Selector counts as pending; an entity all of whose post images
\* are terminal, timed-out ones included, is reported complete.
C26_VerifierAgreesWithSelector ==
    \A e \in Entities :
        verify_company_completion(images, e, TRUE)
            <=> ~ HasPendingPost(images, e)

\* the call on the head of the work list has just been given up
TimeoutStep == WorkerStep /\ last_call'.kind = "timeout"

\* the thread of the abandoned call on photo p ends
LateReturn(p) == abandoned[p] = "running" /\ abandoned'[p] = "returned"

ReturnValues == {"True", "False", "None"}

\* C28: for every outcome of the model call (result, timeout, error
\* inside or outside analyze_image_with_vertex) and of the store writes,
\* process_single_image returns True, False or None and raises nothing, so
\* the loop that called it goes on with the images after it.
C28_WorkerNeverRaises ==
    /\ [] ( \A p \in Photos, call \in Calls, db1 \in BOOLEAN, db2 \in BOOLEAN :
               process_single_image(images, p, call, db1, db2).ret
                  \in ReturnValues )
    /\ [][ ( pc = "work" /\ work # << >> /\ last_call' # last_call )
            => /\ last_call'.ret \in ReturnValues
               /\ pc' = "work"
               /\ work' = Tail(work) ]_vars

\* the model call raised and the fallback UPDATE raised too: the worker
\* returned False and the loop has images left to go on with
C28_Witness ==
    /\ pc = "work"
    /\ last_call.kind = "raise"
    /\ ~ last_call.wrote
    /\ last_call.ret = "False"
    /\ work # << >>

\* main calls the Selector again after the pass over an earlier entity of
\* the same run
SelectsAgain ==
    /\ mode = "main"
    /\ pc = "select"
    /\ id_scraping # 0
    /\ pc' # "select"

\* C29: in a run of main whose store writes have all succeeded, when the
\* Selector is called again after the pass over entity e, no post image of
\* e is pending any more and the Selector returns an entity key strictly
\* larger than e, or none; so no entity is returned twice in the run.
C29_NoEntitySelectedTwice ==
    [][ ( SelectsAgain /\ ~ write_error )
          => /\ PendingOf(images, id_scraping) = {}
             /\ \A p \in Photos :
                   ( /\ images[p].id_scraping = id_scraping
                     /\ images[p].image_type = "post_image" )
                       => TerminalImage(images[p])
             /\ ( id_scraping' = 0 \/ id_scraping' > id_scraping ) ]_vars

\* e1 holds both images and e2 none: the Selector returned e1, the first
\* image timed out and the second was classified, every write succeeded,
\* and the second Selector call of the run has returned none
C29_Witness ==
    /\ mode = "main"
    /\ pc = "idle"
    /\ empresa_num = MaxEmpresas
    /\ id_scraping = 0
    /\ ~ write_error
    /\ \A p \in Photos : /\ images[p].id_scraping = 1
                          /\ images[p].image_type = "post_image"
    /\ images[1].time_out = "true"
    /\ images[MaxPhoto].is_construction_image = "true"

\* the ids of w go up strictly
Ascending(w) == \A i \in 1..Len(w), j \in 1..Len(w) : i < j => w[i] < w[j]

\* C30: in main the work list of an entity is the entity's pending images
\* at selection in ascending id_photo_cleaned order; each step of the pass
\* hands the head of that list to process_single_image and keeps the tail,
\* whatever the call did to the table, so the images are passed one at a
\* time with ascending ids and the list is never queried again.
C30_PassFollowsSelectionOrder ==
    /\ [] ( mode = "main" => Ascending(work) )
    /\ [][ ( mode = "main" /\ pc = "select" /\ pc' = "work" )
            => /\ { work'[i] : i \in 1..Len(work') }
                    = PendingOf(images, id_scraping')
               /\ Len(work') = Cardinality(PendingOf(images, id_scraping')) ]_vars
    /\ [][ ( mode = "main" /\ pc = "work" /\ work # << >> /\ work' # work )
            => /\ last_call'.photo = Head(work)
               /\ work' = Tail(work)
               /\ \A i \in 1..Len(work') : Head(work) < work'[i] ]_vars

\* the write on the first image of the pass failed, so that image is still
\* pending, and the list of the pass holds only the image after it
C30_Witness ==
    /\ mode = "main"
    /\ pc = "work"
    /\ last_call.photo = 1
    /\ ~ last_call.wrote
    /\ Pending(images, 1)
    /\ work = << MaxPhoto >>
    /\ get_images_to_process(images, id_scraping) = << 1, MaxPhoto >>

\* photo p has just timed out in the pass and its sibling q is still on
\* the work list of that pass
TimedOutWithSiblingLeft(p, q) ==
    /\ pc = "work"
    /\ last_call.photo = p
    /\ last_call.kind = "timeout"
    /\ ~ last_call.direct
    /\ q \in Range(work)

\* the pass has just passed photo q to process_single_image
PassedToWorker(q) ==
    /\ pc = "work"
    /\ last_call.photo = q
    /\ ~ last_call.direct

ReturnedSuccessfully(kind) == kind \in {"products", "empty"}

\* C13: when the model call returned successfully and a write on the row
\* took effect, the row holds the boolean the call produced (true exactly
\* when it returned a product), that call's product payload and the token
\* counts of a response (a weakening of "that call's token counts").
C13_RecordsWhatTheCallProduced ==
    [][ ( /\ WorkerStep
          /\ ReturnedSuccessfully(last_call'.kind)
          /\ last_call'.wrote )
        => LET q == Head(work) IN
           /\ images'[q].is_construction_image =
                 ( IF last_call'.kind = "products" THEN "true" ELSE "false" )
           /\ images'[q].product_information =
                 ( IF last_call'.kind = "products" THEN "product" ELSE "null" )
           /\ << images'[q].token_input, images'[q].token_output >> \in Usages ]_vars

----------------------------------------------------------------------------
(* Part II: Name Normalizer and Similarity Matcher                         *)
(* (extract_data_old_webscraping.py).  A name is a sequence of characters. *)

\* name.lower(), on the characters the enumerated names use
LowerOf(c) ==
    CASE c = "A" -> "a" [] c = "B" -> "b" [] c = "C" -> "c" [] c = "D" -> "d"
      [] OTHER -> c

\* [a-zA-Z0-9] after lower()
IsAlnum(c) == c \in {"a", "b", "c", "d", "e", "f", "1", "2"}

\* \s
IsSpace(c) == c = " "

RECURSIVE SplitFrom(_, _, _)
\* str.split(): the maximal runs of non-whitespace characters of s[i..],
\* cur being the run read so far
SplitFrom(s, i, cur) ==
    IF i > Len(s)
    THEN IF cur = << >> THEN << >> ELSE << cur >>
    ELSE IF IsSpace(s[i])
         THEN IF cur = << >> THEN SplitFrom(s, i + 1, << >>)
              ELSE << cur >> \o SplitFrom(s, i + 1, << >>)
         ELSE SplitFrom(s, i + 1, Append(cur, s[i]))

Split(s) == SplitFrom(s, 1, << >>)

RECURSIVE Join(_)
\* ' '.join(tokens)
Join(tokens) ==
    IF tokens = << >> THEN << >>
    ELSE IF Len(tokens) = 1 THEN tokens[1]
    ELSE tokens[1] \o << " " >> \o Join(Tail(tokens))

\* re.sub(r'[^a-zA-Z0-9\s]', '', name.lower()), then ' '.join(split())
normalize_company_name(name) ==
    LET lowered == [ i \in 1..Len(name) |-> LowerOf(name[i]) ]
        kept == SelectSeq(lowered, LAMBDA c : IsAlnum(c) \/ IsSpace(c))
    IN  Join(Split(kept))

RECURSIVE CommonLen(_, _, _, _, _, _)
\* length of the common run of a[i..ahi] and b[j..bhi]
CommonLen(a, b, i, j, ahi, bhi) ==
    IF i > ahi \/ j > bhi \/ a[i] # b[j] THEN 0
    ELSE 1 + CommonLen(a, b, i + 1, j + 1, ahi, bhi)

\* SequenceMatcher.find_longest_match(alo, ahi, blo, bhi) without junk: the
\* longest block; of those the one starting earliest in a, then earliest
\* in b.  << i, j, k >>, k = 0 when nothing matches.
find_longest_match(a, b, alo, ahi, blo, bhi) ==
    LET K(i, j) == CommonLen(a, b, i, j, ahi, bhi)
        lens == { K(i, j) : i \in alo..ahi, j \in blo..bhi }
        kmax == CHOOSE k \in lens : \A l \in lens : l <= k
        besti == Min({ i \in alo..ahi : \E j \in blo..bhi : K(i, j) = kmax })
        bestj == Min({ j \in blo..bhi : K(besti, j) = kmax })
    IN  IF kmax = 0 THEN << alo, blo, 0 >> ELSE << besti, bestj, kmax >>

RECURSIVE MatchCount(_, _, _, _, _, _)
\* sum of the sizes of SequenceMatcher.get_matching_blocks()
MatchCount(a, b, alo, ahi, blo, bhi) ==
    IF alo > ahi \/ blo > bhi THEN 0
    ELSE LET m == find_longest_match(a, b, alo, ahi, blo, bhi) IN
         IF m[3] = 0 THEN 0
         ELSE m[3] + MatchCount(a, b, alo, m[1] - 1, blo, m[2] - 1)
                   + MatchCount(a, b, m[1] + m[3], ahi, m[2] + m[3], bhi)

\* SequenceMatcher(None, a, b).ratio() as the fraction << num, den >>:
\* 2.0 * matches / length, 1.0 when both are empty
Ratio(a, b) ==
    IF Len(a) + Len(b) = 0 THEN << 1, 1 >>
    ELSE << 2 * MatchCount(a, b, 1, Len(a), 1, Len(b)), Len(a) + Len(b) >>

\* comparisons of two fractions with positive denominators
FracGt(x, y) == x[1] * y[2] > y[1] * x[2]
FracGe(x, y) == x[1] * y[2] >= y[1] * x[2]

calculate_similarity(name1, name2) ==
    Ratio(normalize_company_name(name1), normalize_company_name(name2))

\* threshold = 0.5 of match_companies
ThresholdNum == 1
ThresholdDen == 2

\* the keys of normalized_index in insertion order: the normalized titles
\* of table1, each at its first occurrence
IndexKeys(table1) ==
    LET norm(i) == normalize_company_name(table1[i].title)
        firsts == { i \in 1..Len(table1) :
                        \A j \in 1..(i - 1) : norm(j) # norm(i) }
    IN  [ n \in 1..Cardinality(firsts) |-> norm(SortedSeq(firsts)[n]) ]

\* normalized_index[key]: the companies with that normalized title, in order
Bucket(table1, key) ==
    SelectSeq(table1, LAMBDA c : normalize_company_name(c.title) = key)

\* the record a bucket would stand for if its last entry were taken
last_of_bucket(table1, key) ==
    Bucket(table1, key)[Len(Bucket(table1, key))]

\* normalized_index[key][0], companies[0]: the record that stands for a bucket
first_of_bucket(table1, key) == Bucket(table1, key)[1]

NoMatch == [ found |-> FALSE, company |-> [ id_scraping |-> 0, title |-> << >> ],
             similarity |-> << 0, 1 >> ]

RECURSIVE FuzzyScanWithoutFilter(_, _, _, _, _, _)
\* the loop over the index if every bucket went to the ratio comparison
FuzzyScanWithoutFilter(gcs_company, table1, keys, n, threshold, best) ==
    IF n > Len(keys) THEN best
    ELSE LET rep == first_of_bucket(table1, keys[n])
             similarity == calculate_similarity(gcs_company, rep.title)
             next == IF /\ FracGt(similarity, best.similarity)
                        /\ FracGe(similarity, threshold)
                     THEN [ found |-> TRUE, company |-> rep,
                            similarity |-> similarity ]
                     ELSE best
         IN  FuzzyScanWithoutFilter(gcs_company, table1, keys, n + 1,
                                    threshold, next)

RECURSIVE FuzzyScan(_, _, _, _, _, _)
\* the loop "for norm_name, companies in normalized_index.items()" from key
\* number n on, best being the best match so far
FuzzyScan(gcs_company, table1, keys, n, threshold, best) ==
    IF n > Len(keys) THEN best
    ELSE LET gcs_words == Range(Split(normalize_company_name(gcs_company)))
             table_words == Range(Split(keys[n]))
             common_words == gcs_words \cap table_words
             lim == IF Cardinality(gcs_words) < 2 THEN Cardinality(gcs_words)
                    ELSE 2
             rep == first_of_bucket(table1, keys[n])
             similarity == calculate_similarity(gcs_company, rep.title)
             next == IF /\ Cardinality(common_words) >= lim
                        /\ FracGt(similarity, best.similarity)
                        /\ FracGe(similarity, threshold)
                     THEN [ found |-> TRUE, company |-> rep,
                            similarity |-> similarity ]
                     ELSE best
         IN  FuzzyScan(gcs_company, table1, keys, n + 1, threshold, next)

\* the body of match_gcs_batch's loop for one gcs_company
match_one(gcs_company, table1, threshold) ==
    LET keys == IndexKeys(table1)
        gcs_normalized == normalize_company_name(gcs_company)
    IN  IF gcs_normalized \in Range(keys)
        THEN [ found |-> TRUE,
               company |-> first_of_bucket(table1, gcs_normalized),
               similarity |-> << 1, 1 >> ]
        ELSE FuzzyScan(gcs_company, table1, keys, 1, threshold, NoMatch)

RECURSIVE match_batch_from(_, _, _, _)
\* the loop of match_gcs_batch if best_match and best_similarity were set
\* once before the loop and not at the head of its body
match_batch_from(gcs_batch, table1, threshold, best) ==
    IF gcs_batch = << >> THEN << >>
    ELSE LET keys == IndexKeys(table1)
             gcs_normalized == normalize_company_name(Head(gcs_batch))
             m == IF gcs_normalized \in Range(keys)
                  THEN [ found |-> TRUE,
                         company |-> first_of_bucket(table1, gcs_normalized),
                         similarity |-> << 1, 1 >> ]
                  ELSE FuzzyScan(Head(gcs_batch), table1, keys, 1, threshold,
                                 best)
         IN  ( IF m.found THEN << m.company >> ELSE << >> )
                \o match_batch_from(Tail(gcs_batch), table1, threshold, m)

match_gcs_batch_keeping_best(gcs_batch, table1, threshold) ==
    match_batch_from(gcs_batch, table1, threshold, NoMatch)

RECURSIVE match_gcs_batch(_, _, _)
\* batch_matches of one batch, in the order of the batch
match_gcs_batch(gcs_batch, table1, threshold) ==
    IF gcs_batch = << >> THEN << >>
    ELSE LET m == match_one(Head(gcs_batch), table1, threshold) IN
         ( IF m.found THEN << m.company >> ELSE << >> )
            \o match_gcs_batch(Tail(gcs_batch), table1, threshold)

\* batch_size = 50 of match_companies
BatchSize == 50

\* batches cut one element too long: gcs_companies[i:i + batch_size + 1]
BatchesOverlapping(gcs) ==
    [ k \in 1..((Len(gcs) + BatchSize - 1) \div BatchSize) |->
        SubSeq(gcs, (k - 1) * BatchSize + 1,
               Min({ k * BatchSize + 1, Len(gcs) })) ]

\* batches: gcs_companies[i:i + batch_size] for i = 0, batch_size, ...
Batches(gcs) ==
    [ k \in 1..((Len(gcs) + BatchSize - 1) \div BatchSize) |->
        SubSeq(gcs, (k - 1) * BatchSize + 1, Min({ k * BatchSize, Len(gcs) })) ]

\* the orders in which as_completed can yield n futures
CompletionOrders(n) ==
    { f \in [ 1..n -> 1..n ] : \A i, j \in 1..n : i # j => f[i] # f[j] }

RECURSIVE ExtendInOrderUntilFailure(_, _, _, _, _)
\* the collecting loop if the first future that raises ended it
ExtendInOrderUntilFailure(batches, table1, order, failed, k) ==
    IF k > Len(batches) \/ order[k] \in failed THEN << >>
    ELSE match_gcs_batch(batches[order[k]], table1,
                         << ThresholdNum, ThresholdDen >>)
            \o ExtendInOrderUntilFailure(batches, table1, order, failed, k + 1)

RECURSIVE ExtendInOrder(_, _, _, _, _)
\* the loop over as_completed from future number k on: future.result() of
\* a batch in failed raises and the except branch logs it, the result of any
\* other batch goes through matched_companies.extend(batch_matches)
ExtendInOrder(batches, table1, order, failed, k) ==
    IF k > Len(batches) THEN << >>
    ELSE ( IF order[k] \in failed THEN << >>
           ELSE match_gcs_batch(batches[order[k]], table1,
                                << ThresholdNum, ThresholdDen >>) )
            \o ExtendInOrder(batches, table1, order, failed, k + 1)

\* match_companies(gcs_companies, table1_companies) when as_completed
\* yields the futures in the given order and those in failed raise
match_companies(gcs, table1, order, failed) ==
    ExtendInOrder(Batches(gcs), table1, order, failed, 1)

\* existing_ids, or set() from the except branch
get_existing_companies_in_table2(t2, ok) ==
    IF ok THEN { id \in DOMAIN t2 : t2[id] > 0 } ELSE {}

filter_new_companies(t2, companies, ok) ==
    IF companies = << >> THEN << >>
    ELSE LET existing_ids == get_existing_companies_in_table2(t2, ok) IN
         SelectSeq(companies, LAMBDA c : c.id_scraping \notin existing_ids)

\* the load job with WRITE_APPEND: one row per element of rows
load_table_from_json(t2, rows) ==
    [ id \in DOMAIN t2 |->
        t2[id] + Cardinality({ i \in DOMAIN rows : rows[i].id_scraping = id }) ]

\* migrate_to_table2(companies) on destination t2; query_ok and load_ok say
\* whether the store answers the existing-keys query and the load job;
\* stat is stats.companies_migrated_table2 before the call
migrate_to_table2(t2, companies, query_ok, load_ok, stat) ==
    LET new == filter_new_companies(t2, companies, query_ok)
        qerr == IF companies # << >> /\ ~query_ok THEN 1 ELSE 0
    IN  IF companies = << >>
        THEN [ success |-> FALSE, migrated |-> << >>, new_companies |-> << >>,
               tabla2 |-> t2, errors |-> 0, stat |-> stat ]
        ELSE IF new = << >>
        THEN [ success |-> TRUE, migrated |-> << >>, new_companies |-> new,
               tabla2 |-> t2, errors |-> qerr, stat |-> 0 ]
        ELSE IF load_ok
        THEN [ success |-> TRUE, migrated |-> new, new_companies |-> new,
               tabla2 |-> load_table_from_json(t2, new), errors |-> qerr,
               stat |-> Len(new) ]
        ELSE [ success |-> FALSE, migrated |-> << >>, new_companies |-> new,
               tabla2 |-> t2, errors |-> qerr + 1, stat |-> stat ]

----------------------------------------------------------------------------
(* Part II: run_migration_process, phases 1 to 4                           *)

\* folder names of the source bucket
GcsNames ==
    { << "a", "b", " ", "c", "d" >>,
      << "A", "B", " ", " ", "c", "d", "!" >>,
      << "a", "b" >>,
      << "e", "f" >> }

\* Nombre of TABLA_1 (the query keeps the non-empty ones)
Titles == { << "a", "b", " ", "c", "d" >>, << "e", "f" >> }

\* the listing of a bucket: distinct folder names
Listings ==
    { l \in UNION { [ 1..n -> GcsNames ] : n \in 0..MaxGcs } :
          \A i, j \in DOMAIN l : i # j => l[i] # l[j] }

\* what a company folder of the source bucket holds: Banner.jpg, Logo.jpg
\* and a number of images under Posts/; an empty folder or a full one
FolderLayouts ==
    { [ banner |-> FALSE, logo |-> FALSE, posts |-> 0 ],
      [ banner |-> TRUE, logo |-> TRUE, posts |-> MaxPosts ] }

\* the media and image-table state of run_migration_process
mediaPhaseVars == << folder_layout, dest_objects, tabla3, processed_images >>

\* run_migration_process that goes on to the images whatever phase 4 said
after_migration_unchecked(success, migrated) == "images"

\* run_migration_process after phase 4: "if not migration_success: return",
\* then phase 5 only "if migrated_companies"
after_migration(success, migrated) ==
    IF ~success THEN "idle"
    ELSE IF migrated # << >> THEN "images" ELSE "idle"

\* the classification program is not running
ClsIdle ==
    /\ images = [ p \in Photos |-> NewImage(1, "post_image") ]
    /\ images_processed = [ e \in Entities |-> FALSE ]
    /\ mode = "none"
    /\ pc = "idle"
    /\ max_empresas = 1
    /\ empresa_num = 0
    /\ id_scraping = 0
    /\ work = << >>
    /\ processed_count = 0
    /\ success_count = 0
    /\ last_call = NoCall
    /\ abandoned = NoThreads
    /\ write_error = FALSE

MigInit ==
    /\ gcs_bucket \in Listings
    /\ tabla1 \in [ 1..MaxCompany -> Titles ]
    /\ tabla2 \in [ 1..MaxCompany -> 0..1 ]
    /\ gcs_companies = << >>
    /\ table1_companies = << >>
    /\ mpc = "idle"
    /\ matched_companies = << >>
    /\ new_companies = << >>
    /\ query_failed = FALSE
    /\ migration_success = FALSE
    /\ migrated_companies = << >>
    /\ companies_migrated_table2 = 0
    /\ mruns = 0
    /\ prev_candidates = << >>
    /\ folder_layout \in FolderLayouts
    /\ dest_objects = {}
    /\ tabla3 = [ path \in AllPaths |-> 0 ]
    /\ processed_images = << >>
    /\ errors_count = 0

\* a new process: DataMigrationProcessor() and phase 1
GetCompaniesFromGcs ==
    /\ mpc = "idle"
    /\ mruns < MaxMigRuns
    /\ mruns' = mruns + 1
    /\ \E ok \in BOOLEAN :
          /\ gcs_companies' = IF ok THEN gcs_bucket ELSE << >>
          /\ errors_count' = IF ok THEN 0 ELSE 1
          /\ mpc' = IF gcs_companies' # << >> THEN "table1" ELSE "idle"
    /\ table1_companies' = << >>
    /\ matched_companies' = << >>
    /\ new_companies' = << >>
    /\ query_failed' = FALSE
    /\ migration_success' = FALSE
    /\ migrated_companies' = << >>
    /\ companies_migrated_table2' = 0
    /\ processed_images' = << >>
    /\ companies_with_images' = 0
    /\ companies_without_images' = 0
    /\ UNCHANGED << gcs_bucket, tabla1, tabla2, prev_candidates,
                    folder_layout, dest_objects, tabla3 >>
    /\ UNCHANGED otherThanMig

\* phase 2: the rows of TABLA_1, ORDER BY id_scraping
GetCompaniesFromTable1 ==
    /\ mpc = "table1"
    /\ \E ok \in BOOLEAN :
          /\ table1_companies' =
                IF ok THEN [ i \in 1..MaxCompany |->
                               [ id_scraping |-> i, title |-> tabla1[i] ] ]
                ELSE << >>
          /\ errors_count' = IF ok THEN errors_count ELSE errors_count + 1
          /\ mpc' = IF ok THEN "match" ELSE "idle"
    /\ UNCHANGED << gcs_bucket, tabla1, tabla2, gcs_companies,
                    matched_companies, new_companies, query_failed,
                    migration_success, migrated_companies,
                    companies_migrated_table2, mruns, prev_candidates >>
    /\ UNCHANGED << mediaPhaseVars, companies_with_images,
                    companies_without_images >>
    /\ UNCHANGED otherThanMig

\* phase 3
MatchCompanies ==
    /\ mpc = "match"
    /\ \E order \in CompletionOrders(Len(Batches(gcs_companies))) :
       \E failed \in SUBSET (1..Len(Batches(gcs_companies))) :
          matched_companies' =
              match_companies(gcs_companies, table1_companies, order, failed)
    /\ mpc' = IF matched_companies' # << >> THEN "migrate" ELSE "idle"
    /\ UNCHANGED << gcs_bucket, tabla1, tabla2, gcs_companies,
                    table1_companies, new_companies, query_failed,
                    migration_success, migrated_companies,
                    companies_migrated_table2, mruns, prev_candidates,
                    errors_count >>
    /\ UNCHANGED << mediaPhaseVars, companies_with_images,
                    companies_without_images >>
    /\ UNCHANGED otherThanMig

\* phase 4: migrate_to_table2(matched_companies)
MigrateToTable2 ==
    /\ mpc = "migrate"
    /\ \E query_ok, load_ok \in BOOLEAN :
          LET r == migrate_to_table2(tabla2, matched_companies, query_ok,
                                     load_ok, companies_migrated_table2)
          IN  /\ tabla2' = r.tabla2
              /\ new_companies' = r.new_companies
              /\ query_failed' = ~query_ok
              /\ migration_success' = r.success
              /\ migrated_companies' = r.migrated
              /\ companies_migrated_table2' = r.stat
              /\ errors_count' = errors_count + r.errors
              /\ prev_candidates' =
                    IF r.success THEN matched_companies ELSE << >>
    /\ mpc' = after_migration(migration_success', migrated_companies')
    /\ UNCHANGED << gcs_bucket, tabla1, gcs_companies, table1_companies,
                    matched_companies, mruns >>
    /\ UNCHANGED << mediaPhaseVars, companies_with_images,
                    companies_without_images >>
    /\ UNCHANGED otherThanMig

\* similarity >= 0.8 of map_company_batch
MapNum == 4
MapDen == 5

\* map_company_batch for one company: the position in gcs_companies of the
\* first name with similarity >= 0.8 to the company's title, 0 when the
\* company gets no entry in company_mapping
map_company(company, gcs) ==
    LET hits == { i \in 1..Len(gcs) :
                     FracGe(calculate_similarity(gcs[i], company.title),
                            << MapNum, MapDen >>) }
    IN  IF hits = {} THEN 0 ELSE Min(hits)

\* get_company_images: (new_name, image_type) of the images of a folder, for
\* the company id; listed is the number of blobs under Posts/ the listing
\* yields (all of them, or fewer when it raises)
get_company_images(layout, id, listed) ==
    ( IF layout.banner
      THEN << [ img_path |-> [ id |-> id, kind |-> "cover_image", n |-> 0 ],
                image_type |-> "cover_image" ] >>
      ELSE << >> )
    \o ( IF layout.logo
         THEN << [ img_path |-> [ id |-> id, kind |-> "profile_image", n |-> 0 ],
                   image_type |-> "profile_image" ] >>
         ELSE << >> )
    \o [ n \in 1..listed |->
           [ img_path |-> [ id |-> id, kind |-> "image", n |-> n ],
             image_type |-> "post_image" ] ]

\* the storage calls of the media phase that can fail: << t, 0 >> is the
\* listing of task t's folder (it raises before it yields a post image),
\* << t, j >> the copy of the task's j-th image
FailureEvents(ntasks) ==
    { << t, j >> : t \in 1..ntasks, j \in 0..(2 + MaxPosts) }

\* process_company_images of task t for company c when the calls in failed
\* fail: the ImageData of the images copied, in order (id_photo_cleaned is
\* left to Part III)
process_company_images(c, t, layout, failed) ==
    LET imgs == get_company_images(layout, c.id_scraping,
                      IF << t, 0 >> \in failed THEN 0 ELSE layout.posts)
        copied == { j \in 1..Len(imgs) : << t, j >> \notin failed }
    IN  [ n \in 1..Cardinality(copied) |->
            [ id_scraping |-> c.id_scraping,
              img_path |-> imgs[SortedSeq(copied)[n]].img_path,
              image_type |-> imgs[SortedSeq(copied)[n]].image_type ] ]

\* the errors the failed calls of task t raise
task_errors(c, t, layout, failed) ==
    LET imgs == get_company_images(layout, c.id_scraping,
                      IF << t, 0 >> \in failed THEN 0 ELSE layout.posts)
    IN  Cardinality({ j \in 0..Len(imgs) : << t, j >> \in failed })

RECURSIVE ExtendImagesInOrder(_, _, _, _, _)
\* all_images.extend(images) for the futures from number k on
ExtendImagesInOrder(tasks, layout, failed, order, k) ==
    IF k > Len(tasks) THEN << >>
    ELSE process_company_images(tasks[order[k]], order[k], layout, failed)
            \o ExtendImagesInOrder(tasks, layout, failed, order, k + 1)

\* a pool that is handed every company, mapped or not
submitted_tasks_unmapped_too(companies, gcs) == companies

\* the companies process_all_images submits to the pool: those with an
\* entry in company_mapping
submitted_tasks(companies, gcs) ==
    SelectSeq(companies, LAMBDA c : map_company(c, gcs) # 0)

\* existing_paths, or set() from the except branch
get_existing_images_in_table3(t3, ok) ==
    IF ok THEN { path \in DOMAIN t3 : t3[path] > 0 } ELSE {}

filter_new_images(t3, imgs, ok) ==
    IF imgs = << >> THEN << >>
    ELSE LET existing_paths == get_existing_images_in_table3(t3, ok) IN
         SelectSeq(imgs, LAMBDA image : image.img_path \notin existing_paths)

\* insert_images_to_table3(images) on image table t3
insert_images_to_table3(t3, imgs, query_ok, load_ok) ==
    LET new == filter_new_images(t3, imgs, query_ok)
        qerr == IF imgs # << >> /\ ~query_ok THEN 1 ELSE 0
    IN  IF imgs = << >>
        THEN [ success |-> FALSE, tabla3 |-> t3, errors |-> 0 ]
        ELSE IF new = << >>
        THEN [ success |-> TRUE, tabla3 |-> t3, errors |-> qerr ]
        ELSE IF load_ok
        THEN [ success |-> TRUE, errors |-> qerr,
               tabla3 |-> [ path \in DOMAIN t3 |->
                   t3[path] + Cardinality({ i \in DOMAIN new :
                                              new[i].img_path = path }) ] ]
        ELSE [ success |-> FALSE, tabla3 |-> t3, errors |-> qerr + 1 ]

\* phase 5: process_all_images(migrated_companies, gcs_companies), the pool
\* seen from run_migration_process: which storage calls fail and in which
\* order the tasks complete
ProcessAllImages ==
    /\ mpc = "images"
    /\ LET tasks == submitted_tasks(migrated_companies, gcs_companies) IN
       \E failed \in SUBSET FailureEvents(Len(tasks)),
          order \in CompletionOrders(Len(tasks)) :
          LET errs(t) == task_errors(tasks[t], t, folder_layout, failed)
              raised == { t \in 1..Len(tasks) : errs(t) > 0 }
              nerr == IF raised = {} THEN 0
                      ELSE LET RECURSIVE Sum(_)
                               Sum(n) == IF n = 0 THEN 0 ELSE errs(n) + Sum(n - 1)
                           IN  Sum(Len(tasks))
              with == { t \in 1..Len(tasks) :
                          process_company_images(tasks[t], t, folder_layout,
                                                 failed) # << >> }
          IN  /\ Cardinality(failed) <= MaxFailures
              /\ processed_images' =
                    ExtendImagesInOrder(tasks, folder_layout, failed, order, 1)
              /\ dest_objects' = dest_objects \cup
                    { processed_images'[i].img_path :
                          i \in DOMAIN processed_images' }
              /\ companies_with_images' =
                    companies_with_images + Cardinality(with)
              /\ companies_without_images' =
                    companies_without_images + Len(tasks) - Cardinality(with)
              \* "errors_count += 1" of concurrent tasks can lose updates
              /\ errors_count' \in
                    IF Cardinality(raised) <= 1
                    THEN { errors_count + nerr }
                    ELSE (errors_count + 1)..(errors_count + nerr)
    /\ mpc' = IF processed_images' # << >> THEN "insert" ELSE "idle"
    /\ UNCHANGED << gcs_bucket, tabla1, tabla2, gcs_companies,
                    table1_companies, matched_companies, new_companies,
                    query_failed, migration_success, migrated_companies,
                    companies_migrated_table2, mruns, prev_candidates,
                    folder_layout, tabla3 >>
    /\ UNCHANGED otherThanMig

\* phase 6: insert_images_to_table3(processed_images)
InsertImagesToTable3 ==
    /\ mpc = "insert"
    /\ \E query_ok, load_ok \in BOOLEAN :
          LET r == insert_images_to_table3(tabla3, processed_images,
                                           query_ok, load_ok)
          IN  /\ tabla3' = r.tabla3
              /\ errors_count' = errors_count + r.errors
    /\ mpc' = "idle"
    /\ UNCHANGED << gcs_bucket, tabla1, tabla2, gcs_companies,
                    table1_companies, matched_companies, new_companies,
                    query_failed, migration_success, migrated_companies,
                    companies_migrated_table2, mruns, prev_candidates,
                    folder_layout, dest_objects, processed_images,
                    companies_with_images, companies_without_images >>
    /\ UNCHANGED otherThanMig

MigNext ==
    \/ GetCompaniesFromGcs
    \/ GetCompaniesFromTable1
    \/ MatchCompanies
    \/ MigrateToTable2
    \/ ProcessAllImages
    \/ InsertImagesToTable3

\* runs of run_migration_process
\* the migration program starts; nothing else is running
InitMigrate ==
    MigInit /\ ClsIdle /\ MedIdle /\ MatIdle /\ NamIdle /\ ApiIdle

SpecMigrate == InitMigrate /\ [][MigNext]_vars

----------------------------------------------------------------------------
(* Part II: properties                                                     *)

\* number of rows of the destination table
RowCount(t2) ==
    LET RECURSIVE Sum(_)
        Sum(n) == IF n = 0 THEN 0 ELSE t2[n] + Sum(n - 1)
    IN  Sum(MaxCompany)

\* number of keys of the destination table
KeyCount(t2) == Cardinality({ id \in DOMAIN t2 : t2[id] > 0 })

\* a call of migrate_to_table2 returns
MigrateStep == mpc = "migrate" /\ mpc' # "migrate"

\* C6: no two rows of the destination company table share an id_scraping,
\* after any sequence of runs and for every candidate list match_companies
\* can hand to migrate_to_table2.
C6_NoTwoRowsShareIdScraping ==
    \A id \in DOMAIN tabla2 : tabla2[id] <= 1

\* C7: when migrate_to_table2 is called with the candidates of the call
\* before it, which returned True, the numbers of keys and of rows of the
\* destination after the second call equal those after the first.
C7_SecondMigrationChangesNothing ==
    [][ ( MigrateStep /\ prev_candidates = matched_companies )
          => /\ KeyCount(tabla2') = KeyCount(tabla2)
             /\ RowCount(tabla2') = RowCount(tabla2) ]_vars

\* C8: filter_new_companies returns exactly the candidates whose id_scraping
\* has no row in the destination at the time of the call, in their order.
C8_FilterReturnsCandidatesMinusExisting ==
    [][ MigrateStep
          => new_companies' =
                SelectSeq(matched_companies,
                          LAMBDA c : tabla2[c.id_scraping] = 0) ]_vars

\* C9: when the query for the existing destination keys fails inside
\* migrate_to_table2, the error is counted, the call reports failure and no
\* row is written to the destination.
C9_QueryFailureAbortsMigration ==
    [][ ( MigrateStep /\ query_failed' )
          => /\ errors_count' > errors_count
             /\ tabla2' = tabla2
             /\ ~migration_success' ]_vars

\* C14: when migrate_to_table2 reports failure, run_migration_process ends
\* the run there: as long as the run has no successful company migration,
\* no object is copied to the destination bucket, no ImageData is produced
\* and no row is added to the image table.
C14_FailedMigrationStopsTheRun ==
    /\ [][ ( MigrateStep /\ ~ migration_success' ) => mpc' = "idle" ]_vars
    /\ [][ ~ migration_success'
             => /\ dest_objects' = dest_objects
                /\ tabla3' = tabla3
                /\ processed_images' = << >> ]_vars

\* the load job of phase 4 failed for a company whose folder holds images,
\* and the run is over with nothing copied
C14_Witness ==
    /\ mpc = "idle"
    /\ mruns = 1
    /\ ~ migration_success
    /\ \E i \in DOMAIN new_companies :
          map_company(new_companies[i], gcs_companies) # 0
    /\ folder_layout.banner
    /\ dest_objects = {}
    /\ processed_images = << >>

\* a call of insert_images_to_table3 returns
InsertStep == mpc = "insert" /\ mpc' # "insert"

\* C15: insert_images_to_table3 adds rows only for img_path values that
\* have no row in the image table: a path already recorded keeps its row
\* count, so a repeated run over the same source adds nothing.
C15_RecordedImagesAreNotInsertedAgain ==
    [][ InsertStep
          => \A path \in AllPaths :
                tabla3[path] > 0 => tabla3'[path] = tabla3[path] ]_vars

\* C16: the write of migrate_to_table2 is insert-only-if-absent: a key that
\* had rows in the destination company table before the write has exactly
\* the same rows after it, neither changed nor duplicated.
C16_WriteLeavesExistingKeysAlone ==
    [][ MigrateStep
          => \A id \in DOMAIN tabla2 :
                tabla2[id] > 0 => tabla2'[id] = tabla2[id] ]_vars

\* C33: in one run the ImageData gathered from the entity workers carry
\* pairwise distinct img_path values (each stands for one write of that
\* destination name by one worker), and the insert of the run adds at most
\* one row per img_path, for every list match_companies can return.
C33_RunWritesEachPathOnce ==
    /\ [] ( \A i, j \in DOMAIN processed_images :
               i # j => processed_images[i].img_path
                           # processed_images[j].img_path )
    /\ [][ InsertStep
            => \A path \in AllPaths : tabla3'[path] <= tabla3[path] + 1 ]_vars

\* every company match_companies returned has a row in the destination
AllReconciledExist ==
    /\ matched_companies # << >>
    /\ \A i \in DOMAIN matched_companies :
          tabla2[matched_companies[i].id_scraping] > 0

\* C34: when every reconciled company already has a row in the destination,
\* migrate_to_table2 inserts no company row and the run ends without the
\* media phase (no object copied, no image row inserted); and the media
\* phase handles only companies whose row was inserted in the same run.
C34_NothingNewNothingWritten ==
    /\ [][ ( MigrateStep /\ AllReconciledExist )
            => /\ tabla2' = tabla2
               /\ mpc' = "idle" ]_vars
    /\ [][ ( mpc = "images" /\ mpc' # "images" )
            => \A i \in DOMAIN processed_images' :
                  \E j \in DOMAIN migrated_companies :
                     migrated_companies[j].id_scraping
                        = processed_images'[i].id_scraping ]_vars

\* process_all_images returns
ProcessStep == mpc = "images" /\ mpc' # "images"

\* the elements of the list handed to process_all_images whose title has
\* similarity >= 0.8 to some folder name: those with a source-folder mapping
Mapped(companies, gcs) ==
    { j \in DOMAIN companies :
        \E i \in DOMAIN gcs :
           FracGe(calculate_similarity(gcs[i], companies[j].title),
                  << MapNum, MapDen >>) }

\* C35: when process_all_images returns, companies_with_images +
\* companies_without_images is the number of companies that obtained a
\* source-folder mapping (those submitted to the pool), which is at most
\* the number of companies migrated in the run.
C35_WithPlusWithoutIsSubmitted ==
    [][ ProcessStep
          => /\ companies_with_images' + companies_without_images'
                   = Cardinality(Mapped(migrated_companies, gcs_companies))
             /\ companies_with_images' + companies_without_images'
                   <= Len(migrated_companies)
             /\ companies_with_images' + companies_without_images'
                   <= companies_migrated_table2 ]_vars

\* two companies were migrated, one of them got no source-folder mapping:
\* the media phase is over and the two counters add up to 1
C35_Witness ==
    /\ mpc \in {"insert", "idle"}
    /\ migration_success
    /\ Len(migrated_companies) = 2
    /\ Cardinality(Mapped(migrated_companies, gcs_companies)) = 1
    /\ companies_with_images + companies_without_images = 1

----------------------------------------------------------------------------
(* Part III: process_all_images, the pool of process_company_images tasks  *)
(* (extract_data_old_webscraping.py).  Task t handles the company with     *)
(* id_scraping t.  A statement "x += 1" on a shared attribute is a read    *)
(* followed by a write: no lock is held and another thread can run between *)
(* the two, and between the write and a later read.                        *)

Tasks == 1..MaxTasks

\* ThreadPoolExecutor(max_workers=5)
MaxWorkers == 5

Running == { t \in Tasks : task_pc[t] \notin {"queued", "done", "collected"} }

\* top of "for original_path, new_name, image_type in images", n images left
LoopHead(n) == IF n > 0 THEN "copy" ELSE "done"

MedInit ==
    /\ photo_id_counter = 0
    /\ task_pc = [ t \in Tasks |-> "queued" ]
    /\ task_images \in [ Tasks -> 0..MaxImages ]
    /\ task_tmp = [ t \in Tasks |-> 0 ]
    /\ task_result = [ t \in Tasks |-> << >> ]
    /\ task_log = [ t \in Tasks |-> << >> ]
    /\ all_images = << >>
    /\ companies_with_images = 0
    /\ companies_without_images = 0

\* a pool thread takes the task: get_company_images lists the images, or
\* raises after it has found the first k of them
TaskStart(t) ==
    /\ task_pc[t] = "queued"
    /\ Cardinality(Running) < MaxWorkers
    /\ \E ok \in BOOLEAN, k \in 0..task_images[t] :
          /\ IF ok
             THEN /\ task_pc' = [ task_pc EXCEPT ![t] = LoopHead(task_images[t]) ]
                  /\ UNCHANGED task_images
             ELSE /\ task_pc' = [ task_pc EXCEPT ![t] = "err_load" ]
                  /\ task_images' = [ task_images EXCEPT ![t] = k ]
          /\ task_log' = [ task_log EXCEPT ![t] =
                             IF ok THEN @ ELSE Append(@, "list_failed") ]
    /\ UNCHANGED << photo_id_counter, task_tmp, task_result, all_images,
                    companies_with_images, companies_without_images,
                    errors_count >>
    /\ UNCHANGED otherThanMed

\* download_as_bytes / upload_from_string of the next image
CopyImage(t) ==
    /\ task_pc[t] = "copy"
    /\ task_images' = [ task_images EXCEPT ![t] = @ - 1 ]
    /\ \E ok \in BOOLEAN :
          /\ task_pc' = [ task_pc EXCEPT ![t] =
                            IF ok THEN "load" ELSE "err_load" ]
          /\ task_log' = [ task_log EXCEPT ![t] =
                             Append(@, IF ok THEN "copied" ELSE "failed") ]
    /\ UNCHANGED << photo_id_counter, task_tmp, task_result, all_images,
                    companies_with_images, companies_without_images,
                    errors_count >>
    /\ UNCHANGED otherThanMed

\* get_next_photo_id: "self.photo_id_counter += 1", the read
CounterLoad(t) ==
    /\ task_pc[t] = "load"
    /\ task_tmp' = [ task_tmp EXCEPT ![t] = photo_id_counter ]
    /\ task_pc' = [ task_pc EXCEPT ![t] = "store" ]
    /\ UNCHANGED << photo_id_counter, task_images, task_result, all_images,
                    companies_with_images, companies_without_images,
                    errors_count >>
    /\ UNCHANGED << task_log, otherThanMed >>

\* get_next_photo_id: "self.photo_id_counter += 1", the write
CounterStore(t) ==
    /\ task_pc[t] = "store"
    /\ photo_id_counter' = task_tmp[t] + 1
    /\ task_pc' = [ task_pc EXCEPT ![t] = "ret" ]
    /\ UNCHANGED << task_images, task_tmp, task_result, all_images,
                    companies_with_images, companies_without_images,
                    errors_count >>
    /\ UNCHANGED << task_log, otherThanMed >>

\* get_next_photo_id: "return self.photo_id_counter", and the append of the
\* ImageData to processed_images
CounterReturn(t) ==
    /\ task_pc[t] = "ret"
    /\ task_result' = [ task_result EXCEPT ![t] =
                          Append(@, [ id_scraping |-> t,
                                      id_photo_cleaned |-> photo_id_counter ]) ]
    /\ task_pc' = [ task_pc EXCEPT ![t] = LoopHead(task_images[t]) ]
    /\ UNCHANGED << photo_id_counter, task_images, task_tmp, all_images,
                    companies_with_images, companies_without_images,
                    errors_count >>
    /\ UNCHANGED << task_log, otherThanMed >>

\* an except branch: "self.stats.errors_count += 1", the read
ErrLoad(t) ==
    /\ task_pc[t] = "err_load"
    /\ task_tmp' = [ task_tmp EXCEPT ![t] = errors_count ]
    /\ task_pc' = [ task_pc EXCEPT ![t] = "err_store" ]
    /\ UNCHANGED << photo_id_counter, task_images, task_result, all_images,
                    companies_with_images, companies_without_images,
                    errors_count >>
    /\ UNCHANGED << task_log, otherThanMed >>

\* where a task would go after an except branch if that ended the task
after_except_return(n) == "done"

\* where a task goes after an except branch: that of get_company_images
\* returns the images found so far and the loop starts, that of the loop
\* body ends the iteration and the loop goes on with the next image
after_except(n) == LoopHead(n)

\* an except branch: "self.stats.errors_count += 1", the write
ErrStore(t) ==
    /\ task_pc[t] = "err_store"
    /\ errors_count' = task_tmp[t] + 1
    /\ task_pc' = [ task_pc EXCEPT ![t] = after_except(task_images[t]) ]
    /\ UNCHANGED << photo_id_counter, task_images, task_tmp, task_result,
                    all_images, companies_with_images,
                    companies_without_images >>
    /\ UNCHANGED << task_log, otherThanMed >>

\* the main thread: one iteration of "for future in as_completed(...)"
Collect(t) ==
    /\ task_pc[t] = "done"
    /\ task_pc' = [ task_pc EXCEPT ![t] = "collected" ]
    /\ IF task_result[t] # << >>
       THEN /\ all_images' = all_images \o task_result[t]
            /\ companies_with_images' = companies_with_images + 1
            /\ UNCHANGED companies_without_images
       ELSE /\ companies_without_images' = companies_without_images + 1
            /\ UNCHANGED << all_images, companies_with_images >>
    /\ UNCHANGED << photo_id_counter, task_images, task_tmp, task_result,
                    errors_count >>
    /\ UNCHANGED << task_log, otherThanMed >>

MedNext ==
    \E t \in Tasks :
        \/ TaskStart(t)
        \/ CopyImage(t)
        \/ CounterLoad(t)
        \/ CounterStore(t)
        \/ CounterReturn(t)
        \/ ErrLoad(t)
        \/ ErrStore(t)
        \/ Collect(t)

\* process_all_images from the submission of the tasks on
\* the media phase starts with the statistics of a fresh process
InitMedia ==
    MedInit /\ ClsIdle /\ MigIdle /\ MatIdle /\ NamIdle /\ ApiIdle

SpecMedia == InitMedia /\ [][MedNext]_vars

----------------------------------------------------------------------------
(* Part III: properties                                                    *)

\* C10: the ImageRecords process_all_images has gathered carry pairwise
\* distinct id_photo_cleaned, at every point of every interleaving of the
\* pool's workers.
C10_PhotoIdsPairwiseDistinct ==
    \A i, j \in DOMAIN all_images :
        i # j => all_images[i].id_photo_cleaned # all_images[j].id_photo_cleaned

\* the copies of task t that succeeded so far
Copied(t) == { i \in DOMAIN task_log[t] : task_log[t][i] = "copied" }

\* the task has left the loop over its images
TaskOver(t) == task_pc[t] \in {"done", "collected"}

\* C23: a copy that fails does not end the task: when the task returns,
\* every image of the entity has been attempted, each copy that succeeded
\* has given exactly one ImageData and each copy that failed none; while
\* the task runs, at most the ImageData of the last copy is still to come.
C23_FailedCopyLosesOnlyItsOwnRecord ==
    \A t \in Tasks :
        /\ TaskOver(t)
             => /\ task_images[t] = 0
                /\ Len(task_result[t]) = Cardinality(Copied(t))
        /\ Len(task_result[t]) <= Cardinality(Copied(t))
        /\ Cardinality(Copied(t)) <= Len(task_result[t]) + 1

\* the first copy of a task failed, the second was attempted and succeeded
\* and gave the task's only ImageData
C23_Witness ==
    \E t \in Tasks :
        /\ TaskOver(t)
        /\ task_log[t] = << "failed", "copied" >>
        /\ Len(task_result[t]) = 1

----------------------------------------------------------------------------
(* Part III: the statistics of process_all_images                          *)

\* the errors task t has met so far: a listing that raised in
\* get_company_images, and each copy that raised in the loop
ErrorsOf(t) ==
    Cardinality({ i \in DOMAIN task_log[t] :
                    task_log[t][i] \in {"list_failed", "failed"} })

RECURSIVE ErrorsUpTo(_)
ErrorsUpTo(n) == IF n = 0 THEN 0 ELSE ErrorsOf(n) + ErrorsUpTo(n - 1)

\* every future has been taken from as_completed
AllCollected == \A t \in Tasks : task_pc[t] = "collected"

\* C31: when process_all_images has collected every task, stats.errors_count
\* has grown by exactly the number of errors the tasks met, for every
\* interleaving of the pool's workers.
C31_ErrorsCountedExactlyOnce ==
    AllCollected => errors_count = ErrorsUpTo(MaxTasks)

----------------------------------------------------------------------------
(* Part IV: the Similarity Matcher called on its own: one body of the     *)
(* loop of match_gcs_batch, and match_companies on a listing of more than *)
(* one batch                                                               *)

\* Nombre values of TABLA_1: none is empty, one is empty once normalized
MatchTitles ==
    { << "a", "b", " ", "c", "d" >>,
      << "a", "b", " ", "c" >>,
      << "a", "b", "c", "d" >>,
      << "A", "B" >>,
      << "a", "b" >>,
      << "!" >> }

\* folder names: none is empty, one is empty once normalized
MatchNames ==
    { << "a", "b" >>,
      << "a", "b", " ", "c", "d" >>,
      << "c", "d", " ", "a", "b" >>,
      << "!" >> }

\* table1_companies: rows in the order of id_scraping
MatchIndexes ==
    UNION { { [ i \in 1..n |-> [ id_scraping |-> i, title |-> f[i] ] ] :
                f \in [ 1..n -> MatchTitles ] } : n \in 0..MaxIndex }

\* threshold = 0.5 (old web scraping) and threshold = 0.7 (new web scraping)
Thresholds == { << ThresholdNum, ThresholdDen >>, << 7, 10 >> }

RECURSIVE DigitName(_)
\* distinct folder names made of the digits 1 and 2
DigitName(n) ==
    IF n = 0 THEN << >>
    ELSE Append(DigitName((n - 1) \div 2), IF n % 2 = 1 THEN "1" ELSE "2")

\* a listing of BatchSize + 1 folders: name n1, then BatchSize - 1 folders
\* named by digits, then name n2, so that match_companies cuts two batches
MatchListings ==
    UNION { { << n1 >> \o [ i \in 1..(BatchSize - 1) |-> DigitName(i) ]
                      \o << n2 >> :
                n2 \in { << "a", "b" >>, << "c", "d", " ", "a", "b" >> }
                          \ { n1 } } :
              n1 \in { << "a", "b", " ", "c", "d" >>, << "!" >>,
                       << "a", "b" >> } }

MatInit ==
    /\ m_table1 \in MatchIndexes
    /\ m_gcs = << >>
    /\ m_pc = "ready"
    /\ m_cand = << >>
    /\ m_thr = << ThresholdNum, ThresholdDen >>
    /\ m_res = NoMatch
    /\ m_failed = {}
    /\ m_order = << >>
    /\ m_matched = << >>

\* one body of the loop of match_gcs_batch: a folder name is matched
\* against the index of m_table1
MatchOne ==
    /\ m_pc = "ready"
    /\ \E gcs_company \in MatchNames, threshold \in Thresholds :
          /\ m_cand' = gcs_company
          /\ m_thr' = threshold
          /\ m_res' = match_one(gcs_company, m_table1, threshold)
    /\ m_pc' = "one"
    /\ UNCHANGED << m_table1, m_gcs, m_failed, m_order, m_matched >>
    /\ UNCHANGED otherThanMat

\* match_companies(gcs_companies, m_table1) on a listing: the futures
\* complete in some order and some of them raise
MatchAll ==
    /\ m_pc = "ready"
    /\ \E gcs \in MatchListings :
       \E order \in CompletionOrders(Len(Batches(gcs))) :
       \E failed \in SUBSET (1..Len(Batches(gcs))) :
          /\ m_gcs' = gcs
          /\ m_order' = order
          /\ m_failed' = failed
          /\ m_matched' = match_companies(gcs, m_table1, order, failed)
    /\ m_pc' = "all"
    /\ UNCHANGED << m_table1, m_cand, m_thr, m_res >>
    /\ UNCHANGED otherThanMat

MatNext == MatchOne \/ MatchAll

InitMatch ==
    MatInit /\ ClsIdle /\ MigIdle /\ MedIdle /\ NamIdle /\ ApiIdle

SpecMatch == InitMatch /\ [][MatNext]_vars

----------------------------------------------------------------------------
(* Part IV: properties                                                     *)

\* the normalized candidate is a key of the index
ExactKey(cand, table1) ==
    normalize_company_name(cand) \in Range(IndexKeys(table1))

\* the first row of table1 whose normalized title is that of cand
FirstRowNamed(cand, table1) ==
    table1[Min({ i \in DOMAIN table1 :
                    normalize_company_name(table1[i].title)
                        = normalize_company_name(cand) })]

\* C17: when the normalized candidate is a key of the index, the matcher
\* returns the first record of that key's bucket with similarity 1.0,
\* whatever other buckets the index holds.
C17_ExactMatchReturnsFirstOfBucket ==
    ( m_pc = "one" /\ ExactKey(m_cand, m_table1) )
        => /\ m_res.found
           /\ m_res.company = FirstRowNamed(m_cand, m_table1)
           /\ m_res.similarity = << 1, 1 >>

\* the candidate "ab" met a bucket of two records, "AB" then "ab", and got
\* the first of them
C17_Witness ==
    /\ m_pc = "one"
    /\ m_cand = << "a", "b" >>
    /\ Len(m_table1) = 2
    /\ m_table1[1].title = << "A", "B" >>
    /\ m_table1[2].title = << "a", "b" >>
    /\ m_res.company.id_scraping = 1

\* the whitespace tokens of a name once normalized
TokenSet(name) == Range(Split(normalize_company_name(name)))

\* the first row of table1 whose normalized title is key
RowOfKey(table1, key) ==
    table1[Min({ i \in DOMAIN table1 :
                    normalize_company_name(table1[i].title) = key })]

\* the bucket of key shares at least min(2, candidate token count) tokens
\* with the candidate
PassesOverlap(cand, key) ==
    Cardinality(TokenSet(cand) \cap Range(Split(key)))
        >= Min({ 2, Cardinality(TokenSet(cand)) })

\* the keys whose bucket passes the overlap filter and whose representative
\* has a ratio with the candidate of at least the threshold
Qualifying(cand, table1, thr) ==
    { key \in Range(IndexKeys(table1)) :
          /\ PassesOverlap(cand, key)
          /\ FracGe(calculate_similarity(cand, RowOfKey(table1, key).title),
                    thr) }

\* C18: when the normalized candidate is no key of the index, the matcher
\* returns nothing if no bucket passes both the overlap filter and the
\* threshold, and otherwise the representative of a bucket that passes
\* both and whose ratio no other such bucket exceeds; a bucket that fails
\* the overlap filter is never returned.
C18_FuzzyMatchIsBestQualifyingBucket ==
    ( m_pc = "one" /\ ~ ExactKey(m_cand, m_table1) )
        => LET Q == Qualifying(m_cand, m_table1, m_thr)
               sim(key) == calculate_similarity(m_cand,
                                                RowOfKey(m_table1, key).title)
           IN  IF Q = {} THEN ~ m_res.found
               ELSE /\ m_res.found
                    /\ \E key \in Q :
                          /\ m_res.company = RowOfKey(m_table1, key)
                          /\ m_res.similarity = sim(key)
                          /\ \A other \in Q : FracGe(sim(key), sim(other))

\* the candidate "ab" met the bucket "abcd", whose ratio 4/6 is the highest
\* but which shares no token with it, and the bucket "ab cd" of ratio 4/7,
\* and got the record of "ab cd"
C18_Witness ==
    /\ m_pc = "one"
    /\ m_cand = << "a", "b" >>
    /\ m_thr = << ThresholdNum, ThresholdDen >>
    /\ Len(m_table1) = 2
    /\ m_table1[1].title = << "a", "b", "c", "d" >>
    /\ m_table1[2].title = << "a", "b", " ", "c", "d" >>
    /\ m_res.found
    /\ m_res.company.id_scraping = 2
    /\ FracGt(calculate_similarity(m_cand, m_table1[1].title),
              m_res.similarity)

\* C19: a candidate whose normalized form is the empty string gets no
\* match, whatever the index holds.
C19_EmptyCandidateNeverMatches ==
    ( m_pc = "one" /\ normalize_company_name(m_cand) = << >> )
        => ~ m_res.found

\* what match_gcs_batch returns for batch number b of the listing
BatchMatches(b) ==
    match_gcs_batch(Batches(m_gcs)[b], m_table1,
                    << ThresholdNum, ThresholdDen >>)

\* the batches of the listing whose future did not raise
CompletedBatches == ( 1..Len(Batches(m_gcs)) ) \ m_failed

\* C20: when match_gcs_batch fails for some batches, match_companies still
\* returns: its result holds every match of every batch that did not fail,
\* as many times as those batches found it, and nothing else; a failed
\* batch contributes nothing.
C20_FailedBatchLosesOnlyItsOwnMatches ==
    m_pc = "all"
        => LET found == [ b \in 1..Len(Batches(m_gcs)) |-> BatchMatches(b) ]
               kept == UNION { { << b, i >> : i \in DOMAIN found[b] } :
                                  b \in CompletedBatches }
           IN  /\ Len(m_matched) = Cardinality(kept)
               /\ \A c \in Range(m_table1) :
                     Cardinality({ i \in DOMAIN m_matched : m_matched[i] = c })
                       = Cardinality({ p \in kept : found[p[1]][p[2]] = c })

\* the first batch, which holds a match, failed, and the match of the
\* second batch was returned
C20_Witness ==
    /\ m_pc = "all"
    /\ m_failed = {1}
    /\ BatchMatches(1) # << >>
    /\ BatchMatches(2) # << >>
    /\ m_matched = BatchMatches(2)

RECURSIVE Flatten(_)
\* the batches one after another
Flatten(batches) ==
    IF batches = << >> THEN << >>
    ELSE Head(batches) \o Flatten(Tail(batches))

\* how many times each row of m_table1 occurs in a list of matches
Occurrences(matches) ==
    [ c \in Range(m_table1) |->
        Cardinality({ i \in DOMAIN matches : matches[i] = c }) ]

\* every candidate of the listing matched once, one after another
SequentialMatches ==
    match_gcs_batch(m_gcs, m_table1, << ThresholdNum, ThresholdDen >>)

CompletedPositions ==
    { i \in DOMAIN m_gcs : ((i - 1) \div BatchSize) + 1 \in CompletedBatches }

\* C22: whatever batch a candidate lies in, whatever candidates precede it
\* there and in whatever order the batches complete, match_companies holds
\* for it exactly what the matcher returns for that candidate invoked alone
\* on the same index and threshold: each row is returned as many times as
\* there are candidates that get it when matched alone.
C22_MatchIndependentOfBatchAndWorker ==
    m_pc = "all"
        => LET alone == [ i \in CompletedPositions |->
                            match_one(m_gcs[i], m_table1,
                                      << ThresholdNum, ThresholdDen >>) ]
           IN  /\ Len(m_matched)
                    = Cardinality({ i \in CompletedPositions : alone[i].found })
               /\ \A c \in Range(m_table1) :
                     Cardinality({ i \in DOMAIN m_matched : m_matched[i] = c })
                       = Cardinality({ i \in CompletedPositions :
                                          alone[i].found /\ alone[i].company = c })

\* the candidate "ab" was matched as the last element of the listing, in
\* the second batch, which completed first, after a first candidate that
\* was matched too, and got the row it gets alone
C22_Witness ==
    /\ m_pc = "all"
    /\ m_failed = {}
    /\ m_order = << 2, 1 >>
    /\ m_gcs[Len(m_gcs)] = << "a", "b" >>
    /\ match_one(m_gcs[1], m_table1, << ThresholdNum, ThresholdDen >>).found
    /\ match_one(<< "a", "b" >>, m_table1,
                 << ThresholdNum, ThresholdDen >>).found
    /\ m_matched[1]
         = match_one(<< "a", "b" >>, m_table1,
                     << ThresholdNum, ThresholdDen >>).company

----------------------------------------------------------------------------
(* Part V: get_company_images, and the loop of process_company_images over *)
(* the list it returns, for one company (extract_data_old_webscraping.py)  *)

\* endings of the blob names bucket.list_blobs(prefix=posts_path) yields
BlobEndings == {".jpg", ".PNG", ".txt"}

\* blob.name.lower().endswith(('.jpg', '.jpeg', '.png'))
is_image_blob(ending) ==
    ending \in {".jpg", ".JPG", ".jpeg", ".JPEG", ".png", ".PNG"}

\* f"{id_scraping}_cover_image.jpg", f"{id_scraping}_profile_image.jpg" and
\* f"{id_scraping}_image{post_counter}.jpg" (n = 0 where the name has no
\* counter)
new_name(id, kind, n) == [ id |-> id, kind |-> kind, n |-> n ]

\* post_counter after a blob, if the counter went up with every blob listed
next_post_counter_every_blob(counter, ending) == counter + 1

\* post_counter after a blob: "post_counter += 1" is inside the "if" on the
\* blob's ending
next_post_counter(counter, ending) ==
    IF is_image_blob(ending) THEN counter + 1 ELSE counter

RECURSIVE post_images(_, _, _)
\* "for blob in blobs" from the blob at the head of blobs on, post_counter
\* being counter
post_images(blobs, id, counter) ==
    IF blobs = << >> THEN << >>
    ELSE ( IF is_image_blob(Head(blobs))
           THEN << [ new_name |-> new_name(id, "image", counter),
                     image_type |-> "post_image" ] >>
           ELSE << >> )
         \o post_images(Tail(blobs), id,
                        next_post_counter(counter, Head(blobs)))

\* get_company_images: Banner.jpg, Logo.jpg, then the blobs under Posts/;
\* yielded is the number of blobs the listing gives before it raises (all
\* of them when it does not): the except branch keeps the images found
list_company_images(folder, id, yielded) ==
    ( IF folder.banner
      THEN << [ new_name |-> new_name(id, "cover_image", 0),
                image_type |-> "cover_image" ] >>
      ELSE << >> )
    \o ( IF folder.logo
         THEN << [ new_name |-> new_name(id, "profile_image", 0),
                   image_type |-> "profile_image" ] >>
         ELSE << >> )
    \o post_images(SubSeq(folder.posts, 1, yielded), id, 1)

BlobLists == UNION { [ 1..n -> BlobEndings ] : n \in 0..MaxBlobs }

NamInit ==
    /\ g_folder \in [ banner : BOOLEAN, logo : BOOLEAN, posts : BlobLists ]
    /\ g_id \in 1..MaxCompany
    /\ g_pc = "ready"
    /\ g_images = << >>
    /\ g_left = << >>
    /\ g_copied = << >>

\* process_company_images up to the loop: get_company_images, and
\* "if not images: return []"
GetCompanyImages ==
    /\ g_pc = "ready"
    /\ \E yielded \in 0..Len(g_folder.posts) :
          g_images' = list_company_images(g_folder, g_id, yielded)
    /\ g_left' = g_images'
    /\ g_pc' = IF g_images' = << >> THEN "done" ELSE "copy"
    /\ UNCHANGED << g_folder, g_id, g_copied >>
    /\ UNCHANGED otherThanNam

\* one iteration of "for original_path, new_name, image_type in images":
\* the copy succeeds or raises, and the loop goes on
CopyNextImage ==
    /\ g_pc = "copy"
    /\ g_left # << >>
    /\ \E ok \in BOOLEAN :
          g_copied' = Append(g_copied, [ new_name |-> Head(g_left).new_name,
                                         ok |-> ok ])
    /\ g_left' = Tail(g_left)
    /\ g_pc' = IF g_left' = << >> THEN "done" ELSE "copy"
    /\ UNCHANGED << g_folder, g_id, g_images >>
    /\ UNCHANGED otherThanNam

NamNext == GetCompanyImages \/ CopyNextImage

\* one call of process_company_images; nothing else is running
InitNames ==
    NamInit /\ ClsIdle /\ MigIdle /\ MedIdle /\ MatIdle /\ ApiIdle

SpecNames == InitNames /\ [][NamNext]_vars

----------------------------------------------------------------------------
(* Part V: properties                                                      *)

\* the positions of the post images in a list of get_company_images
PostPositions(imgs) ==
    { i \in DOMAIN imgs : imgs[i].image_type = "post_image" }

\* C32: the list get_company_images returns holds only names of the
\* template for the company's id, pairwise distinct; the post images carry
\* the ordinals 1, 2, 3, ... without a gap, ascending in listing order;
\* and the loop attempts the copies one by one in the order of the list.
C32_NamesFollowTemplateInOrder ==
    g_pc \in {"copy", "done"} =>
      /\ \A i \in DOMAIN g_images :
            /\ g_images[i].new_name.id = g_id
            /\ g_images[i].new_name.kind
                  = ( IF g_images[i].image_type = "post_image" THEN "image"
                      ELSE g_images[i].image_type )
            /\ g_images[i].image_type
                  \in {"cover_image", "profile_image", "post_image"}
            /\ ( g_images[i].image_type = "post_image" )
                  <=> ( g_images[i].new_name.n > 0 )
      /\ \A i, j \in DOMAIN g_images :
            i # j => g_images[i].new_name # g_images[j].new_name
      /\ { g_images[i].new_name.n : i \in PostPositions(g_images) }
            = 1..Cardinality(PostPositions(g_images))
      /\ \A i, j \in PostPositions(g_images) :
            i < j => g_images[i].new_name.n < g_images[j].new_name.n
      /\ Len(g_copied) + Len(g_left) = Len(g_images)
      /\ \A i \in DOMAIN g_copied :
            g_copied[i].new_name = g_images[i].new_name
      /\ g_pc = "done" => g_left = << >>

\* a folder with Banner.jpg, Logo.jpg and a blob that is no image between
\* two images: four names, the posts numbered 1 and 2, all four copies
\* attempted and the first post's copy failed
C32_Witness ==
    /\ g_pc = "done"
    /\ g_folder.banner
    /\ g_folder.logo
    /\ g_folder.posts = << ".jpg", ".txt", ".PNG" >>
    /\ Len(g_images) = 4
    /\ g_images[4].new_name = new_name(g_id, "image", 2)
    /\ Len(g_copied) = 4
    /\ ~ g_copied[3].ok

(***************************************************************************)
(* Part VI: the Apify batch pipeline.  apify_batch.py starts the two       *)
(* scraping actors for companies that wait in BQ_TABLE, marks them         *)
(* is_downloaded and appends the two run ids to batch_apify/apify_runs.txt.*)
(* upload_data_apify_batch.py reads the blocks of that file that are not   *)
(* yet PROCESADO, loads each block's datasets into BQ_TABLE and            *)
(* CLEANED_TABLE and rewrites the block to PROCESADO: TRUE.                *)
(*                                                                         *)
(* The two scripts are run one after the other.  A run id is the position  *)
(* of the run among the runs started at Apify.  A block of the file is the *)
(* record of the lines the parser reads: the PROCESADO line and the two    *)
(* "- id =" lines (DESCRIPCION keeps the number of companies; the FECHA    *)
(* and enlace lines repeat the run ids' information and are left out).     *)
(* Every call of BigQuery, Apify or the file system may raise.             *)
(***************************************************************************)

Leads == 1..MaxLeads

Min2(a, b) == IF a <= b THEN a ELSE b

\* ------------------------------------------------------------ apify_batch

\* WHERE processed = false and is_downloaded = false and Created_at is null
waiting(table) ==
    { c \in Leads : /\ ~ table[c].processed
                    /\ ~ table[c].is_downloaded
                    /\ ~ table[c].created_at }

\* the row sets the query with LIMIT max_empresas may return (no ORDER BY)
fetch_rows(table, limit) ==
    { rows \in SUBSET waiting(table) :
        Cardinality(rows) = Min2(limit, Cardinality(waiting(table))) }

\* start_actor_with_userdata: the run started at Apify for these items
start_actor(runs, actor, items) ==
    Append(runs, [ actor |-> actor, items |-> items ])

\* MERGE ... WHEN MATCHED THEN UPDATE SET is_downloaded = TRUE
mark_downloaded(table, rows) ==
    [ c \in Leads |-> IF c \in rows
                         THEN [ table[c] EXCEPT !.is_downloaded = TRUE ]
                         ELSE table[c] ]

\* the entry appended to apify_runs.txt
entry_lines(rows, photos_id, page_id) ==
    [ descripcion |-> Cardinality(rows),
      procesado   |-> "FALSE",
      photos_id   |-> photos_id,
      page_id     |-> page_id ]

\* the query for waiting companies and the two actor starts.  started is
\* the number of starts that returned: with 0 the photos start raised,
\* with 1 the page start raised and the photos run is left at Apify.
ApifyLaunch ==
    /\ a_pc = "idle"
    /\ u_pc = "idle"
    /\ a_count < MaxLaunches
    /\ a_count' = a_count + 1
    /\ \E rows \in fetch_rows(bq_table, a_limit), started \in 0..2 :
          /\ a_rows' = rows
          /\ IF rows = {}
                THEN /\ apify_runs' = apify_runs
                     /\ a_photos' = 0
                     /\ a_page' = 0
                     /\ a_pc' = "idle"
                ELSE /\ apify_runs' =
                          IF started = 0 THEN apify_runs
                          ELSE IF started = 1
                             THEN start_actor(apify_runs, "photos", rows)
                             ELSE start_actor(
                                     start_actor(apify_runs, "photos", rows),
                                     "page", rows)
                     /\ a_photos' = IF started >= 1
                                       THEN Len(apify_runs) + 1 ELSE 0
                     /\ a_page' = IF started = 2
                                     THEN Len(apify_runs) + 2 ELSE 0
                     /\ a_pc' = IF started = 2 THEN "launched" ELSE "idle"
    /\ UNCHANGED << bq_table, has_images, runs_file, cleaned_rows, a_limit,
                    u_pc, u_batches, u_todo, u_printed, u_count >>
    /\ UNCHANGED otherThanApi

\* the temporary table, the MERGE and the deletion of the temporary table:
\* "raised" before the MERGE ran, "merged_raised" after it
ApifyMarkDownloaded ==
    /\ a_pc = "launched"
    /\ \E outcome \in {"raised", "merged_raised", "done"} :
          /\ bq_table' = IF outcome = "raised"
                            THEN bq_table
                            ELSE mark_downloaded(bq_table, a_rows)
          /\ a_pc' = IF outcome = "done" THEN "marked" ELSE "idle"
    /\ UNCHANGED << has_images, apify_runs, runs_file, cleaned_rows, a_limit,
                    a_rows, a_photos, a_page, a_count,
                    u_pc, u_batches, u_todo, u_printed, u_count >>
    /\ UNCHANGED otherThanApi

\* the entry is appended to apify_runs.txt, or opening or writing raises
ApifyAppendRuns ==
    /\ a_pc = "marked"
    /\ \E written \in BOOLEAN :
          runs_file' = IF written
                          THEN Append(runs_file,
                                      entry_lines(a_rows, a_photos, a_page))
                          ELSE runs_file
    /\ a_pc' = "idle"
    /\ UNCHANGED << bq_table, has_images, apify_runs, cleaned_rows, a_limit,
                    a_rows, a_photos, a_page, a_count,
                    u_pc, u_batches, u_todo, u_printed, u_count >>
    /\ UNCHANGED otherThanApi

\* ------------------------------------------------ upload_data_apify_batch

\* str.upper on the values the PROCESADO line takes
upper(text) ==
    IF text = "true" THEN "TRUE"
    ELSE IF text = "false" THEN "FALSE"
    ELSE text

\* the batch dictionary of the block at position i
batch_of(file, i) ==
    [ block_index   |-> i,
      processed     |-> ( upper(file[i].procesado) = "TRUE" ),
      photos_id     |-> file[i].photos_id,
      page_id       |-> file[i].page_id,
      block_content |-> file[i] ]

\* only unprocessed batches with both ids are returned
is_returned(batch) ==
    /\ batch.processed = FALSE
    /\ batch.photos_id # 0
    /\ batch.page_id # 0

parse_apify_runs_file(file) ==
    SelectSeq([ i \in DOMAIN file |-> batch_of(file, i) ], is_returned)

\* block_content.replace("PROCESADO: FALSE", "PROCESADO: TRUE")
replace_procesado(block) ==
    [ block EXCEPT !.procesado = IF @ = "FALSE" THEN "TRUE" ELSE @ ]

FileOutcomes == {"written", "unread", "truncated"}

\* a rewrite of every PROCESADO: FALSE of the file
update_whole_file(file, batch, outcome) ==
    IF outcome = "written"
       THEN [ i \in DOMAIN file |-> replace_procesado(file[i]) ]
    ELSE IF outcome = "unread" THEN file
    ELSE << >>

\* content.replace(block_content, ...) rewrites every block whose text is
\* block_content.  "unread": reading or opening raised, the file is as it
\* was.  "truncated": the file was opened for writing and the write raised.
update_batch_processed_status(file, batch, outcome) ==
    IF outcome = "written"
       THEN [ i \in DOMAIN file |->
                 IF file[i] = batch.block_content
                    THEN replace_procesado(file[i])
                    ELSE file[i] ]
    ELSE IF outcome = "unread" THEN file
    ELSE << >>

\* what update_batch_processed_status prints
printed_line(outcome) == IF outcome = "written" THEN "updated" ELSE "error"

\* the items a dataset download may return: those of the run, some of
\* them, or none (the download raised, or the run has produced nothing)
dataset_items(runs, run_id) ==
    IF run_id \in DOMAIN runs THEN SUBSET runs[run_id].items ELSE { {} }

\* WHERE id_scraping IN (...) AND Created_at IS NOT NULL; {} when the query
\* raises
check_companies_already_processed(table, id_scrapings, answered) ==
    IF answered THEN { c \in id_scrapings : table[c].created_at } ELSE {}

\* a loop that also marks a batch whose page dataset came back empty
loop_branch_marking_empty(page_data, todo) ==
    IF todo = {} THEN "mark" ELSE "process"

\* the branch the loop body takes: "continue" on an empty page dataset,
\* "mark" when the batch has companies and none is left to process
loop_branch(page_data, todo) ==
    IF page_data = {} THEN "continue"
    ELSE IF todo = {} THEN "mark"
    ELSE "process"

\* MERGE ... Created_at = S.Created_at
update_companies(table, companies) ==
    [ c \in Leads |-> IF c \in companies
                         THEN [ table[c] EXCEPT !.created_at = TRUE ]
                         ELSE table[c] ]

\* the records generate_public_image_urls builds: those of the companies
\* with an image
insert_data(companies, images_of) == { c \in companies : images_of[c] }

\* load_table_from_json appends the records
insert_images_to_cleaned_table(rows, records) ==
    [ c \in Leads |-> IF c \in records THEN rows[c] + 1 ELSE rows[c] ]

\* MERGE ... SET processed = S.processed, for the companies with images
update_processed_status(table, companies) ==
    [ c \in Leads |-> IF c \in companies
                         THEN [ table[c] EXCEPT !.processed = TRUE ]
                         ELSE table[c] ]

\* main: the file is parsed once
UploadStart ==
    /\ u_pc = "idle"
    /\ a_pc = "idle"
    /\ u_count < MaxUploads
    /\ u_count' = u_count + 1
    /\ u_batches' = parse_apify_runs_file(runs_file)
    /\ u_pc' = IF u_batches' = << >> THEN "idle" ELSE "batch"
    /\ u_todo' = {}
    /\ u_printed' = << >>
    /\ UNCHANGED << bq_table, has_images, apify_runs, runs_file,
                    cleaned_rows, a_limit, a_pc, a_rows, a_photos, a_page,
                    a_count >>
    /\ UNCHANGED otherThanApi

\* head of the loop: the downloads, the check and the filter
UploadNextBatch ==
    /\ u_pc = "batch"
    /\ IF u_batches = << >>
          THEN /\ u_pc' = "idle"
               /\ UNCHANGED << runs_file, u_batches, u_todo, u_printed >>
          ELSE \E page_data \in dataset_items(apify_runs,
                                              Head(u_batches).page_id),
                  answered \in BOOLEAN, outcome \in FileOutcomes :
                  LET todo == page_data
                                \ check_companies_already_processed(
                                      bq_table, page_data, answered)
                      branch == loop_branch(page_data, todo)
                  IN  IF branch = "continue"
                         THEN /\ u_batches' = Tail(u_batches)
                              /\ u_pc' = "batch"
                              /\ UNCHANGED << runs_file, u_todo, u_printed >>
                      ELSE IF branch = "mark"
                         THEN /\ runs_file' = update_batch_processed_status(
                                     runs_file, Head(u_batches), outcome)
                              /\ u_printed' = Append(u_printed, printed_line(outcome))
                              /\ u_batches' = Tail(u_batches)
                              /\ u_pc' = "batch"
                              /\ UNCHANGED u_todo
                         ELSE /\ u_todo' = todo
                              /\ u_pc' = "update"
                              /\ UNCHANGED << runs_file, u_batches,
                                              u_printed >>
    /\ UNCHANGED << bq_table, has_images, apify_runs, cleaned_rows, a_limit,
                    a_pc, a_rows, a_photos, a_page, a_count, u_count >>
    /\ UNCHANGED otherThanApi

\* create_temp_table_and_update_companies
UploadCompanies ==
    /\ u_pc = "update"
    /\ \E outcome \in {"raised", "merged_raised", "done"} :
          /\ bq_table' = IF outcome = "raised"
                            THEN bq_table
                            ELSE update_companies(bq_table, u_todo)
          /\ u_pc' = IF outcome = "done" THEN "insert" ELSE "idle"
    /\ UNCHANGED << has_images, apify_runs, runs_file, cleaned_rows, a_limit,
                    a_pc, a_rows, a_photos, a_page, a_count,
                    u_batches, u_todo, u_printed, u_count >>
    /\ UNCHANGED otherThanApi

\* if insert_data: insert_images_to_cleaned_table
UploadImages ==
    /\ u_pc = "insert"
    /\ IF insert_data(u_todo, has_images) = {}
          THEN /\ u_pc' = "status"
               /\ UNCHANGED cleaned_rows
          ELSE \E loaded \in BOOLEAN :
                  /\ cleaned_rows' =
                        IF loaded
                           THEN insert_images_to_cleaned_table(
                                   cleaned_rows,
                                   insert_data(u_todo, has_images))
                           ELSE cleaned_rows
                  /\ u_pc' = IF loaded THEN "status" ELSE "idle"
    /\ UNCHANGED << bq_table, has_images, apify_runs, runs_file, a_limit,
                    a_pc, a_rows, a_photos, a_page, a_count,
                    u_batches, u_todo, u_printed, u_count >>
    /\ UNCHANGED otherThanApi

\* if companies_with_images: update_processed_status
UploadProcessed ==
    /\ u_pc = "status"
    /\ IF insert_data(u_todo, has_images) = {}
          THEN /\ u_pc' = "flip"
               /\ UNCHANGED bq_table
          ELSE \E outcome \in {"raised", "merged_raised", "done"} :
                  /\ bq_table' =
                        IF outcome = "raised"
                           THEN bq_table
                           ELSE update_processed_status(
                                   bq_table, insert_data(u_todo, has_images))
                  /\ u_pc' = IF outcome = "done" THEN "flip" ELSE "idle"
    /\ UNCHANGED << has_images, apify_runs, runs_file, cleaned_rows, a_limit,
                    a_pc, a_rows, a_photos, a_page, a_count,
                    u_batches, u_todo, u_printed, u_count >>
    /\ UNCHANGED otherThanApi

\* update_batch_processed_status at the end of the loop body
UploadFlip ==
    /\ u_pc = "flip"
    /\ \E outcome \in FileOutcomes :
          /\ runs_file' = update_batch_processed_status(
                             runs_file, Head(u_batches), outcome)
          /\ u_printed' = Append(u_printed, printed_line(outcome))
    /\ u_batches' = Tail(u_batches)
    /\ u_pc' = "batch"
    /\ UNCHANGED << bq_table, has_images, apify_runs, cleaned_rows, a_limit,
                    a_pc, a_rows, a_photos, a_page, a_count, u_todo,
                    u_count >>
    /\ UNCHANGED otherThanApi

\* every company waits to be scraped; MAX_EMPRESAS and the scraped data
\* are any
ApiInit ==
    /\ bq_table = [ c \in Leads |->
                      [ processed |-> FALSE, is_downloaded |-> FALSE,
                        created_at |-> FALSE ] ]
    /\ has_images \in [ Leads -> BOOLEAN ]
    /\ apify_runs = << >>
    /\ runs_file = << >>
    /\ cleaned_rows = [ c \in Leads |-> 0 ]
    /\ a_limit \in 1..MaxLeads
    /\ a_pc = "idle"
    /\ a_rows = {}
    /\ a_photos = 0
    /\ a_page = 0
    /\ a_count = 0
    /\ u_pc = "idle"
    /\ u_batches = << >>
    /\ u_todo = {}
    /\ u_printed = << >>
    /\ u_count = 0

ApiNext ==
    \/ ApifyLaunch
    \/ ApifyMarkDownloaded
    \/ ApifyAppendRuns
    \/ UploadStart
    \/ UploadNextBatch
    \/ UploadCompanies
    \/ UploadImages
    \/ UploadProcessed
    \/ UploadFlip

InitApify ==
    ApiInit /\ ClsIdle /\ MigIdle /\ MedIdle /\ MatIdle /\ NamIdle

SpecApify == InitApify /\ [][ApiNext]_vars

\* ---------------------------------------------------------------- C36

\* the block at position i is rewritten from PROCESADO: FALSE to TRUE
Rewritten(i) ==
    /\ i \in DOMAIN runs_file'
    /\ runs_file[i].procesado = "FALSE"
    /\ runs_file'[i].procesado = "TRUE"

\* the three writes of the current batch are in the tables
BatchWritesDone ==
    \A c \in u_todo :
       /\ bq_table[c].created_at
       /\ has_images[c] => ( cleaned_rows[c] >= 1 /\ bq_table[c].processed )

\* the batch's page dataset can hold companies that all have Created_at
AllAlreadyProcessed(batch) ==
    \E page_data \in dataset_items(apify_runs, batch.page_id) :
       /\ page_data # {}
       /\ \A c \in page_data : bq_table[c].created_at

\* C36: a block is rewritten to PROCESADO: TRUE only for the batch main is
\* at, and only at the end of the loop body, after the company update, the
\* image-record insert and the processed-status update of that batch have
\* returned, or at the head of the loop when every company of the batch
\* already has Created_at; the step that ends main with an exception and
\* the step that skips a batch with an empty page dataset leave the file
\* as it is.
C36_FlaggedOnlyAfterAllWrites ==
    [][ /\ \A i \in DOMAIN runs_file :
              Rewritten(i) =>
                 /\ u_batches # << >>
                 /\ Head(u_batches).block_index = i
                 /\ \/ u_pc = "flip" /\ BatchWritesDone
                    \/ u_pc = "batch" /\ AllAlreadyProcessed(Head(u_batches))
        /\ ( u_pc \in {"update", "insert", "status"} /\ u_pc' = "idle" )
              => runs_file' = runs_file
      ]_vars

\* one block was rewritten after its company got Created_at, its image
\* records and processed = TRUE, and a second run of main has ended with
\* an exception on a second block, which is still PROCESADO: FALSE
C36_Witness ==
    /\ Len(runs_file) = 2
    /\ runs_file[1].procesado = "TRUE"
    /\ runs_file[2].procesado = "FALSE"
    /\ \E c \in Leads : /\ cleaned_rows[c] = 1
                        /\ bq_table[c].processed
                        /\ bq_table[c].created_at
    /\ \E c \in Leads : bq_table[c].created_at /\ cleaned_rows[c] = 0
                           /\ has_images[c]
    /\ u_pc = "idle"
    /\ u_count = 2

\* ---------------------------------------------------------------- C37

\* main goes on with a batch: companies_to_process is fixed
FilterStep == u_pc = "batch" /\ u_pc' = "update"

\* the image records of no company were loaded twice
NoSecondInsert == \A c \in Leads : cleaned_rows[c] <= 1

\* C37: no company whose row has Created_at set is in
\* companies_to_process, and over every sequence of runs of main, runs
\* that ended with an exception and were repeated included, the image
\* records of a company are inserted into CLEANED_TABLE at most once.
C37_ImageRecordsInsertedOnce ==
    /\ [][ FilterStep => \A c \in u_todo' : ~ bq_table[c].created_at ]_vars
    /\ [] NoSecondInsert

\* ---------------------------------------------------------------- C38

\* update_batch_processed_status was called in this step, for the batch at
\* the head of u_batches
UpdateCalled == Len(u_printed') = Len(u_printed) + 1

\* parse_apify_runs_file of the file after the step does not return the
\* batch
NoLongerReturned(batch) ==
    \A k \in DOMAIN parse_apify_runs_file(runs_file') :
       LET later == parse_apify_runs_file(runs_file')[k]
       IN  later.photos_id # batch.photos_id \/ later.page_id # batch.page_id

\* every other block of the file is as before the step
OthersKept(batch) ==
    \A i \in DOMAIN runs_file :
       runs_file[i] # batch.block_content
          => i \in DOMAIN runs_file' /\ runs_file'[i] = runs_file[i]

ApifyEnds == a_pc' = "idle" /\ ( a_pc # "idle" \/ a_count' # a_count )

\* actors are started in this step
ActorsStarted == Len(apify_runs') > Len(apify_runs)

\* the companies some actor was started for
LaunchedBefore == UNION { apify_runs[k].items : k \in DOMAIN apify_runs }

\* C39: when a run of apify_batch that started actors ends, every company
\* it started them for is is_downloaded = TRUE and the file holds a block
\* with the run's two ids and PROCESADO: FALSE; and no run starts actors
\* for a company for which actors were started before.
C39_LaunchedIsMarkedAndRecorded ==
    [][ /\ ( ApifyEnds /\ a_photos' # 0 )
              => /\ \A c \in a_rows' : bq_table'[c].is_downloaded
                 /\ \E i \in DOMAIN runs_file' :
                       runs_file'[i] =
                          entry_lines(a_rows', a_photos', a_page')
                 /\ a_page' # 0
        /\ ActorsStarted => a_rows' \cap LaunchedBefore = {}
      ]_vars

====
